---- MODULE Spec2Model ----
(***************************************************************************)
(* Transfer protocol engine of humanCDN: two peers, each running the same  *)
(* App component (src/src/App.tsx) on top of the same PeerService          *)
(* (src/services/peerService.ts), joined by one ordered reliable channel   *)
(* per direction.                                                          *)
(*                                                                         *)
(* Scaling.  Byte counts are scaled down: the 36-byte id header is         *)
(* HEADER_LEN bytes, CHUNK_SIZE is the variable chunkSize drawn at Init,   *)
(* BUFFER_THRESHOLD and the receiver's 100000-byte "first bytes" limit are *)
(* a few bytes.  Wall-clock time is not modelled: every comparison of      *)
(* Date.now() against a stored timestamp is a nondeterministic boolean.    *)
(* The progress field (a percentage, bytes / meta.size * 100) is kept as   *)
(* its numerator in bytes; progress: 100 is the numerator meta.size.       *)
(* The speed field of a TransferItem is a function of wall-clock time only *)
(* and is not kept.                                                        *)
(*                                                                         *)
(* React.  setTransfers(updater) queues the updater and the updaters run in *)
(* call order, so the list React holds is the result of the updaters       *)
(* queued so far: that list is the variable transfers.  What is on screen, *)
(* and what the effect of App.tsx line 32 has copied to                    *)
(* transfersRef.current, is the list as of the last render: the variable   *)
(* transfersRef.  A handler called from a message or a timer leaves        *)
(* transfersRef stale until Render; a click handler is rendered before the *)
(* next event.                                                             *)
(***************************************************************************)
EXTENDS Integers, Sequences, FiniteSets, TLC

\* ---------------------------------------------------------------- bounds
MaxFileSize == 2
MaxChunkSize == 2
MaxSendFailures == 1
TwoFileSize == 2
InterleaveFileSize == 2
MaxRoundTripSize == 4
MaxRoundTripChunk == 3
BatchFileSize == 1
AnswerFileSize == 2
RepeatFileSize == 2
MaxPad == 5
MaxPayload == 2
ChatFileSize == 2
MaxChats == 2

\* ------------------------------------------------------ program constants
HEADER_LEN == 2
BUFFER_THRESHOLD == 2
FIRST_BYTES_LIMIT == 2

Peers == {"S", "R"}
Other(p) == IF p = "S" THEN "R" ELSE "S"

\* The files the user of peer S can select, with the ids crypto.randomUUID
\* gave them.
FileIds == {"a", "b"}
FileOrder == <<"a", "b">>

\* TransferState (types.ts) plus the CANCELLED member App.tsx uses.
IDLE == "IDLE"
PENDING == "PENDING"
QUEUED == "QUEUED"
TRANSFERRING == "TRANSFERRING"
COMPLETED == "COMPLETED"
CANCELLED == "CANCELLED"

VARIABLES
  chunkSize,       \* CHUNK_SIZE
  fileSize,        \* File.size of every selectable file
  open,            \* connection.open
  userFiles,       \* the files the user of peer S has to choose from
  selected,        \* files already given an id by handleFileSelection
  transfers,       \* [peer -> list of TransferItem held by React]
  transfersRef,    \* [peer -> transfersRef.current, the rendered list]
  receivedChunks,  \* [peer -> map id -> list of chunk payloads]
  receivedBytes,   \* [peer -> map id -> running total]
  speedTracker,    \* [peer -> id -> lastBytes of the id's RateSample]
  cancelledFiles,  \* [peer -> PeerService.cancelledFiles]
  lastUpdateMap,   \* [peer -> ids with an entry in PeerService.lastUpdateMap]
  connection,      \* [peer -> PeerService.connection is set]
  chatMessages,    \* [peer -> the chat list: sender and text of each message]
  jobs,            \* [peer -> list of sendFiles invocations]
  timers,          \* [peer -> scheduled onProgress callbacks, FIFO]
  wire,            \* [peer -> messages sent by the peer, not yet delivered]
  sendFailures,    \* number of connection.send calls that threw so far
  lastEvent        \* history: the handler that ran last, for whom, for which id

vars == <<chunkSize, fileSize, open, userFiles, selected, transfers, transfersRef,
          receivedChunks, receivedBytes, speedTracker,
          cancelledFiles, lastUpdateMap, connection, chatMessages, jobs,
          timers, wire, sendFailures, lastEvent>>

Event(op, peer, id) == [op |-> op, peer |-> peer, id |-> id]

\* ------------------------------------------------------------ small helpers
EmptyMap == [x \in {} |-> 0]
\* a delete that leaves the entry in place
MapKeep(f, k) == f

\* Map.prototype.delete
MapDelete(f, k) == [x \in (DOMAIN f) \ {k} |-> f[x]]
MapSet(f, k, v) == [x \in (DOMAIN f) \cup {k} |-> IF x = k THEN v ELSE f[x]]

RECURSIVE Concat(_)
Concat(ss) == IF ss = <<>> THEN <<>> ELSE Head(ss) \o Concat(Tail(ss))

RECURSIVE SumLen(_)
SumLen(ss) == IF ss = <<>> THEN 0 ELSE Len(Head(ss)) + SumLen(Tail(ss))

Min(x, y) == IF x < y THEN x ELSE y

\* ------------------------------------------------------------------ files
\* The bytes of a file: position-dependent and different for every file, so
\* that loss, duplication, reordering and mixing are all visible.
FileBase(id) == IF id = "a" THEN 100 ELSE 200
FileBytes(id) == [i \in 1..fileSize[id] |-> FileBase(id) + i]

\* a slice one byte longer than CHUNK_SIZE
FileSliceWide(id, offset) ==
  SubSeq(FileBytes(id), offset + 1, Min(offset + chunkSize + 1, fileSize[id]))

\* file.slice(offset, offset + CHUNK_SIZE) followed by arrayBuffer()
FileSlice(id, offset) ==
  SubSeq(FileBytes(id), offset + 1, Min(offset + chunkSize, fileSize[id]))

\* ------------------------------------------------------------------ codec
NUL == 0
SPACE == 32
Whitespace == {9, 10, 11, 12, 13, SPACE}

\* TextEncoder.encode(fileId): the ids exactly fill the header, as UUIDs do.
IdBytes(id) == IF id = "a" THEN <<97, 49>> ELSE <<98, 49>>

\* a packet whose header is filled up with the letter A
FrameFilledWithLetters(idBytes, payload) ==
  [i \in 1..(HEADER_LEN + Len(payload)) |->
     IF i <= Len(idBytes) THEN idBytes[i]
     ELSE IF i <= HEADER_LEN THEN 65
     ELSE payload[i - HEADER_LEN]]

\* new Uint8Array(36 + n) is zero filled; set(fileIdBytes, 0); set(chunk, 36)
Frame(idBytes, payload) ==
  [i \in 1..(HEADER_LEN + Len(payload)) |->
     IF i <= Len(idBytes) THEN idBytes[i]
     ELSE IF i <= HEADER_LEN THEN NUL
     ELSE payload[i - HEADER_LEN]]

\* the packet of a chunk of the file with this id
Packet(id, payload) == Frame(IdBytes(id), payload)

\* .replace(/\0/g, '')
RECURSIVE StripNul(_)
StripNul(s) ==
  IF s = <<>> THEN <<>>
  ELSE IF Head(s) = NUL THEN StripNul(Tail(s))
  ELSE <<Head(s)>> \o StripNul(Tail(s))

\* .trim()
RECURSIVE TrimLeft(_)
TrimLeft(s) ==
  IF s # <<>> /\ Head(s) \in Whitespace THEN TrimLeft(Tail(s)) ELSE s

RECURSIVE TrimRight(_)
TrimRight(s) ==
  IF s # <<>> /\ s[Len(s)] \in Whitespace
  THEN TrimRight(SubSeq(s, 1, Len(s) - 1)) ELSE s

Trim(s) == TrimRight(TrimLeft(s))

\* The string the decoded characters spell: a known id, or some other string.
UnknownId == "?"
IdOfBytes(s) ==
  IF \E id \in FileIds : IdBytes(id) = s
  THEN CHOOSE id \in FileIds : IdBytes(id) = s
  ELSE UnknownId

\* A decoder that trims the header and leaves its null bytes.
HeaderTextTrimmed(header) == Trim(header)

\* .replace(/\0/g, '').trim() on the decoded header
HeaderText(header) == Trim(StripNul(header))

\* a decode that names the first file whatever the header holds
DecodeHeaderFirst(data) == "a"

\* new Uint8Array(data, 0, 36), TextDecoder().decode, replace, trim
DecodeHeader(data) == IdOfBytes(HeaderText(SubSeq(data, 1, HEADER_LEN)))

\* A decoder that cuts the payload one byte early, data.slice(35).
DecodePayloadEarly(data) == SubSeq(data, HEADER_LEN, Len(data))

\* data.slice(36)
DecodePayload(data) == SubSeq(data, HEADER_LEN + 1, Len(data))

\* --------------------------------------------------------------- messages
NoFiles == <<>>
JsonMsg(type, fileId, fileIds, files) ==
  [binary |-> FALSE, type |-> type, fileId |-> fileId, fileIds |-> fileIds,
   files |-> files, data |-> <<>>]
BinaryMsg(data) ==
  [binary |-> TRUE, type |-> "", fileId |-> "", fileIds |-> {},
   files |-> NoFiles, data |-> data]

OfferMsg(files) == JsonMsg("offer", "", {}, files)
AnswerMsg(ids) == JsonMsg("answer", "", ids, NoFiles)
CancelMsg(id) == JsonMsg("cancel", id, {}, NoFiles)
FileCompleteMsg(id) == JsonMsg("file-complete", id, {}, NoFiles)
AllCompleteMsg == JsonMsg("all-complete", "", {}, NoFiles)

\* connection.send: a closed connection transmits nothing.
ConnSend(w, m) == IF open THEN Append(w, m) ELSE w

\* channel.bufferedAmount: the bytes handed to the channel and not delivered.
MsgSize(m) == IF m.binary THEN Len(m.data) ELSE 1
RECURSIVE BufferedAmount(_)
BufferedAmount(w) ==
  IF w = <<>> THEN 0 ELSE MsgSize(Head(w)) + BufferedAmount(Tail(w))

\* ------------------------------------------------------------ the registry
\* One TransferItem.  hasFile: the file field is set (sender side).
\* blob: the bytes behind blobUrl, hasBlob tells whether blobUrl is set.
Item(id, hasFile, size, state, isIncoming) ==
  [id |-> id, hasFile |-> hasFile, size |-> size, progress |-> 0,
   state |-> state, isIncoming |-> isIncoming, hasBlob |-> FALSE,
   blob |-> <<>>]

Ids(ts) == {ts[i].id : i \in 1..Len(ts)}
Find(ts, id) == ts[CHOOSE i \in 1..Len(ts) : ts[i].id = id /\
                     \A k \in 1..(i - 1) : ts[k].id # id]
Has(ts, id) == id \in Ids(ts)

\* a filter that keeps the items whose id is already known
RECURSIVE SeqFilterKnown(_, _)
SeqFilterKnown(items, existing) ==
  IF items = <<>> THEN <<>>
  ELSE IF Head(items).id \notin existing THEN SeqFilterKnown(Tail(items), existing)
  ELSE <<Head(items)>> \o SeqFilterKnown(Tail(items), existing)

\* newTransfers.filter(t => !existingIds.has(t.id))
RECURSIVE SeqFilterNew(_, _)
SeqFilterNew(items, existing) ==
  IF items = <<>> THEN <<>>
  ELSE IF Head(items).id \in existing THEN SeqFilterNew(Tail(items), existing)
  ELSE <<Head(items)>> \o SeqFilterNew(Tail(items), existing)

\* ----------------------------------------------------- setTransfers updaters
\* prev.map(t => ids has t.id ? { ...t, state } : t)
WithState(ts, ids, state) ==
  [i \in 1..Len(ts) |->
     IF ts[i].id \in ids THEN [ts[i] EXCEPT !.state = state] ELSE ts[i]]

\* progress counted on the packets, 36-byte header included
WithProgressOfPackets(ts, id, bytes) ==
  [i \in 1..Len(ts) |->
     IF ts[i].id = id
     THEN [ts[i] EXCEPT !.state = TRANSFERRING, !.progress = bytes + HEADER_LEN]
     ELSE ts[i]]

\* App.tsx 126-136 and 160-170
WithProgress(ts, id, bytes) ==
  [i \in 1..Len(ts) |->
     IF ts[i].id = id
     THEN [ts[i] EXCEPT !.state = TRANSFERRING, !.progress = bytes]
     ELSE ts[i]]

\* App.tsx 97-100
WithOffered(ts, newTransfers) == ts \o SeqFilterNew(newTransfers, Ids(ts))

\* App.tsx 178-191: new Blob(chunks), progress 100
WithCompleted(ts, id, chunks) ==
  [i \in 1..Len(ts) |->
     IF ts[i].id = id
     THEN [ts[i] EXCEPT !.state = COMPLETED, !.hasBlob = TRUE,
                        !.blob = Concat(chunks), !.progress = ts[i].size]
     ELSE ts[i]]

\* ------------------------------------------------------------ Speed Estimator
\* calculateSpeed(fileId, currentBytes): TRUE when it returns a number, FALSE
\* when it returns undefined.  elapsed: Date.now() - record.lastTime >= 500.
SpeedDefined(p, id, elapsed) == id \notin DOMAIN speedTracker[p] \/ elapsed
\* App.tsx 52 and 61: the sample the call stores
SpeedTrackerAfter(p, id, currentBytes) ==
  MapSet(speedTracker[p], id, currentBytes)

\* --------------------------------------------------------------- send loops
\* an invocation that starts with the last file of its list
JobFromLast(files) ==
  [files |-> files, idx |-> Len(files), offsets |-> [i \in 1..Len(files) |-> 0],
   returned |-> [i \in 1..Len(files) |-> ""], pc |-> "start"]

\* One sendFiles invocation: the files it sends in order, the index of the
\* file whose sendFileIndividual is running, the offset variable of every
\* sendFileIndividual invocation, how each invocation returned ("" while it
\* has not: "cancelled" by the return of line 159 or 213, "completed" past
\* line 215), and where the invocation is suspended.
Job(files) ==
  [files |-> files, idx |-> 1, offsets |-> [i \in 1..Len(files) |-> 0],
   returned |-> [i \in 1..Len(files) |-> ""], pc |-> "start"]

\* The part of a peer's state a send loop reads and writes between two
\* suspensions.
LoopCtx(p, k) ==
  [job |-> jobs[p][k], cancelled |-> cancelledFiles[p], wire |-> wire[p],
   lastUpdate |-> lastUpdateMap[p]]

\* peerService.ts 154-216 and 135-139, run from the loop condition to the next
\* await that yields to other events: the backpressure wait ("bp_wait"), the
\* read of the slice ("read"), or the end of sendFiles ("done").
RECURSIVE LoopHead(_)
RECURSIVE FileDone(_)

\* A loop end without the check of line 213.
LoopTailUnchecked(c) ==
  LET id == c.job.files[c.job.idx] IN
  FileDone([c EXCEPT !.wire = ConnSend(@, FileCompleteMsg(id)),
                     !.lastUpdate = @ \ {id},
                     !.job.returned[c.job.idx] = "completed"])

\* peerService.ts 213-216
LoopTail(c) ==
  LET id == c.job.files[c.job.idx] IN
  IF id \in c.cancelled
  THEN FileDone([c EXCEPT !.job.returned[c.job.idx] = "cancelled"])
  ELSE FileDone([c EXCEPT !.wire = ConnSend(@, FileCompleteMsg(id)),
                          !.lastUpdate = @ \ {id},
                          !.job.returned[c.job.idx] = "completed"])

\* peerService.ts 154-184
LoopHead(c) ==
  LET id == c.job.files[c.job.idx]
      offset == c.job.offsets[c.job.idx] IN
  IF offset < fileSize[id]
  THEN IF ~open THEN LoopTail(c)
       ELSE IF id \in c.cancelled
            THEN FileDone([c EXCEPT !.cancelled = @ \ {id},
                                    !.job.returned[c.job.idx] = "cancelled"])
       ELSE IF BufferedAmount(c.wire) > BUFFER_THRESHOLD
            THEN [c EXCEPT !.job.pc = "bp_wait"]
       ELSE [c EXCEPT !.job.pc = "read"]
  ELSE LoopTail(c)

\* A sendFiles that announces all-complete after every file.
FileDoneAnnounced(c) ==
  IF c.job.idx < Len(c.job.files)
  THEN LoopHead([c EXCEPT !.job.idx = @ + 1,
                          !.wire = ConnSend(@, AllCompleteMsg)])
  ELSE [c EXCEPT !.wire = ConnSend(@, AllCompleteMsg), !.job.pc = "done"]

\* peerService.ts 135-139: the next file of the batch, or all-complete
FileDone(c) ==
  IF c.job.idx < Len(c.job.files)
  THEN LoopHead([c EXCEPT !.job.idx = @ + 1])
  ELSE [c EXCEPT !.wire = ConnSend(@, AllCompleteMsg), !.job.pc = "done"]

\* Writes a loop context back into the peer's state.
StoreCtx(p, k, c) ==
  /\ jobs' = [jobs EXCEPT ![p][k] = c.job]
  /\ cancelledFiles' = [cancelledFiles EXCEPT ![p] = c.cancelled]
  /\ wire' = [wire EXCEPT ![p] = c.wire]
  /\ lastUpdateMap' = [lastUpdateMap EXCEPT ![p] = c.lastUpdate]

Suspended(p, k, pc) == k \in 1..Len(jobs[p]) /\ jobs[p][k].pc = pc

\* ------------------------------------------------------------------- Init
Init ==
  /\ chunkSize \in 1..MaxChunkSize
  /\ userFiles = {"a"}
  /\ fileSize \in {f \in [FileIds -> 0..MaxFileSize] :
                    \A id \in FileIds \ userFiles : f[id] = 0}
  /\ open = TRUE
  /\ selected = {}
  /\ transfers = [p \in Peers |-> <<>>]
  /\ transfersRef = [p \in Peers |-> <<>>]
  /\ receivedChunks = [p \in Peers |-> EmptyMap]
  /\ receivedBytes = [p \in Peers |-> EmptyMap]
  /\ speedTracker = [p \in Peers |-> EmptyMap]
  /\ cancelledFiles = [p \in Peers |-> {}]
  /\ lastUpdateMap = [p \in Peers |-> {}]
  /\ jobs = [p \in Peers |-> <<>>]
  /\ timers = [p \in Peers |-> <<>>]
  /\ wire = [p \in Peers |-> <<>>]
  /\ sendFailures = 0
  /\ connection = [p \in Peers |-> TRUE]
  /\ chatMessages = [p \in Peers |-> <<>>]
  /\ lastEvent = Event("Init", "", "")

\* setTransfers from a click handler: the new list is rendered, and copied
\* to transfersRef.current, before the next event.
SetTransfersSync(p, ts) ==
  /\ transfers' = [transfers EXCEPT ![p] = ts]
  /\ transfersRef' = [transfersRef EXCEPT ![p] = ts]

\* setTransfers from a message or timer handler: rendered later.
SetTransfers(p, ts) ==
  /\ transfers' = [transfers EXCEPT ![p] = ts]
  /\ UNCHANGED transfersRef

\* ------------------------------------------------------------ user actions
RECURSIVE NewItems(_, _)
NewItems(order, pick) ==
  IF order = <<>> THEN <<>>
  ELSE (IF Head(order) \in pick
        THEN <<Item(Head(order), TRUE, fileSize[Head(order)], IDLE, FALSE)>>
        ELSE <<>>) \o NewItems(Tail(order), pick)

Metas(items) ==
  [i \in 1..Len(items) |-> [id |-> items[i].id, size |-> items[i].size]]

\* App.tsx 65-87 with peerService.sendOffer (106-109).  The file input is
\* rendered with the session view, that is while connectionState is CONNECTED.
HandleFileSelection(p, pick) ==
  /\ pick # {} /\ pick \subseteq userFiles \ selected
  /\ connection[p]
  /\ LET newFiles == NewItems(FileOrder, pick) IN
       /\ wire' = [wire EXCEPT ![p] = ConnSend(@, OfferMsg(Metas(newFiles)))]
       /\ SetTransfersSync(p, WithState(transfers[p] \o newFiles, pick, PENDING))
  /\ selected' = selected \cup pick
  /\ lastEvent' = Event("HandleFileSelection", p, "")
  /\ UNCHANGED <<connection, chatMessages, chunkSize, fileSize, userFiles, open, receivedChunks, receivedBytes,
                 speedTracker, cancelledFiles, lastUpdateMap, jobs, timers,
                 sendFailures>>

\* The ids whose card shows the accept button (TransferCard.tsx 78).
Acceptable(p) ==
  {transfersRef[p][i].id : i \in {k \in 1..Len(transfersRef[p]) :
      transfersRef[p][k].isIncoming /\ transfersRef[p][k].state = PENDING}}

\* The ids whose card shows the cancel button (TransferCard.tsx 90).
Cancellable(p) ==
  {transfersRef[p][i].id : i \in {k \in 1..Len(transfersRef[p]) :
      transfersRef[p][k].state \notin {COMPLETED, CANCELLED}}}

\* App.tsx 244-247 with peerService.sendAnswer (111-114)
AcceptFiles(p, ids) ==
  /\ ids # {} /\ ids \subseteq Acceptable(p)
  /\ wire' = [wire EXCEPT ![p] = ConnSend(@, AnswerMsg(ids))]
  /\ SetTransfersSync(p, WithState(transfers[p], ids, QUEUED))
  /\ lastEvent' = Event("AcceptFiles", p, "")
  /\ UNCHANGED <<connection, chatMessages, chunkSize, fileSize, userFiles, open, selected, receivedChunks,
                 receivedBytes, speedTracker, cancelledFiles, lastUpdateMap,
                 jobs, timers, sendFailures>>

\* A cancel that frees the chunk list and forgets the byte counter.
DropChunksOnly(p, id) ==
  /\ receivedChunks' = [receivedChunks EXCEPT ![p] = MapDelete(@, id)]
  /\ UNCHANGED receivedBytes

\* App.tsx 251 and 104-107
DropBuffers(p, id) ==
  IF id \in DOMAIN receivedChunks[p]
  THEN /\ receivedChunks' = [receivedChunks EXCEPT ![p] = MapDelete(@, id)]
       /\ receivedBytes' = [receivedBytes EXCEPT ![p] = MapDelete(@, id)]
  ELSE UNCHANGED <<receivedChunks, receivedBytes>>

\* App.tsx 249-253 with peerService.cancelTransfer (122-126)
CancelTransfer(p, id) ==
  /\ id \in Cancellable(p)
  /\ cancelledFiles' = [cancelledFiles EXCEPT ![p] = @ \cup {id}]
  /\ wire' = [wire EXCEPT ![p] = ConnSend(@, CancelMsg(id))]
  /\ DropBuffers(p, id)
  /\ SetTransfersSync(p, WithState(transfers[p], {id}, CANCELLED))
  /\ lastEvent' = Event("CancelTransfer", p, id)
  /\ UNCHANGED <<connection, chatMessages, chunkSize, fileSize, userFiles, open, selected, speedTracker,
                 lastUpdateMap, jobs, timers, sendFailures>>

\* ------------------------------------------------------------------ render
\* React renders the list it holds; the effect of App.tsx 32 stores it in
\* transfersRef.current.
Render(p) ==
  /\ transfersRef[p] # transfers[p]
  /\ transfersRef' = [transfersRef EXCEPT ![p] = transfers[p]]
  /\ lastEvent' = Event("Render", p, "")
  /\ UNCHANGED <<connection, chatMessages, chunkSize, fileSize, userFiles, open, selected, transfers,
                 receivedChunks, receivedBytes, speedTracker, cancelledFiles,
                 lastUpdateMap, jobs, timers, wire, sendFailures>>

\* ------------------------------------------------------- message delivery
\* conn.on('data') of peer p for the oldest undelivered message of its peer.
Arrives(p, binary, type) ==
  /\ wire[Other(p)] # <<>>
  /\ Head(wire[Other(p)]).binary = binary
  /\ Head(wire[Other(p)]).type = type
Delivered(p) == [wire EXCEPT ![Other(p)] = Tail(@)]

\* peerService.ts 91, App.tsx 93-101
RecvOffer(p) ==
  /\ Arrives(p, FALSE, "offer")
  /\ LET m == Head(wire[Other(p)])
         newTransfers == [i \in 1..Len(m.files) |->
            Item(m.files[i].id, FALSE, m.files[i].size, PENDING, TRUE)] IN
       SetTransfers(p, WithOffered(transfers[p], newTransfers))
  /\ wire' = Delivered(p)
  /\ lastEvent' = Event("RecvOffer", p, "")
  /\ UNCHANGED <<connection, chatMessages, chunkSize, fileSize, userFiles, open, selected, receivedChunks,
                 receivedBytes, speedTracker, cancelledFiles, lastUpdateMap,
                 jobs, timers, sendFailures>>

\* peerService.ts 88-91, App.tsx 102-109
RecvCancel(p) ==
  /\ Arrives(p, FALSE, "cancel")
  /\ LET fileId == Head(wire[Other(p)]).fileId IN
       /\ cancelledFiles' = [cancelledFiles EXCEPT ![p] = @ \cup {fileId}]
       /\ DropBuffers(p, fileId)
       /\ SetTransfers(p, WithState(transfers[p], {fileId}, CANCELLED))
  /\ wire' = Delivered(p)
  /\ lastEvent' = Event("RecvCancel", p, Head(wire[Other(p)]).fileId)
  /\ UNCHANGED <<connection, chatMessages, chunkSize, fileSize, userFiles, open, selected, speedTracker,
                 lastUpdateMap, jobs, timers, sendFailures>>

\* a filter on the accepted ids alone
RECURSIVE FilesObjectsOfAnyRecord(_, _)
FilesObjectsOfAnyRecord(ts, acceptedIds) ==
  IF ts = <<>> THEN <<>>
  ELSE (IF Head(ts).id \in acceptedIds THEN <<Head(ts).id>> ELSE <<>>)
         \o FilesObjectsOfAnyRecord(Tail(ts), acceptedIds)

\* App.tsx 116-119: the File objects of the accepted outgoing records, in
\* the order of transfersRef.current.
RECURSIVE FilesObjects(_, _)
FilesObjects(ts, acceptedIds) ==
  IF ts = <<>> THEN <<>>
  ELSE (IF Head(ts).id \in acceptedIds /\ Head(ts).hasFile
           /\ ~Head(ts).isIncoming
        THEN <<Head(ts).id>> ELSE <<>>) \o FilesObjects(Tail(ts), acceptedIds)

\* peerService.ts 91, App.tsx 110-140, and sendFiles (128-140) up to its
\* first suspension.
RecvAnswer(p) ==
  /\ Arrives(p, FALSE, "answer")
  /\ LET acceptedIds == Head(wire[Other(p)]).fileIds
         files == FilesObjects(transfersRef[p], acceptedIds)
         c == LoopHead([job |-> Job(files), cancelled |-> cancelledFiles[p],
                        wire |-> wire[p], lastUpdate |-> lastUpdateMap[p]]) IN
       /\ SetTransfers(p, WithState(transfers[p], acceptedIds, TRANSFERRING))
       /\ IF files # <<>>
          THEN /\ jobs' = [jobs EXCEPT ![p] = Append(@, c.job)]
               /\ cancelledFiles' = [cancelledFiles EXCEPT ![p] = c.cancelled]
               /\ wire' = [Delivered(p) EXCEPT ![p] = c.wire]
               /\ lastUpdateMap' = [lastUpdateMap EXCEPT ![p] = c.lastUpdate]
          ELSE /\ wire' = Delivered(p)
               /\ UNCHANGED <<jobs, cancelledFiles, lastUpdateMap>>
  /\ lastEvent' = Event("RecvAnswer", p, "")
  /\ UNCHANGED <<connection, chatMessages, chunkSize, fileSize, userFiles, open, selected, receivedChunks,
                 receivedBytes, speedTracker, timers, sendFailures>>

\* transfersRef.current.find(t => t.id === fileId)?.state
RefState(p, id) ==
  IF Has(transfersRef[p], id) THEN Find(transfersRef[p], id).state
  ELSE "undefined"

\* A receiver that relies on the rendered record alone.
ChunkDroppedByRecordOnly(p, fileId) == RefState(p, fileId) = CANCELLED

\* peerService.ts 75 and App.tsx 143-144: the two drop-if-cancelled checks
ChunkDropped(p, fileId) ==
  fileId \in cancelledFiles[p] \/ RefState(p, fileId) = CANCELLED

\* peerService.ts 71-85, App.tsx 141-172.  elapsed: the sample window of
\* calculateSpeed is over.
RecvChunk(p, elapsed) ==
  /\ Arrives(p, TRUE, "")
  /\ Len(Head(wire[Other(p)]).data) >= HEADER_LEN
  /\ LET data == Head(wire[Other(p)]).data
         fileId == DecodeHeader(data)
         chunkData == DecodePayload(data)
         old == IF fileId \in DOMAIN receivedBytes[p]
                THEN receivedBytes[p][fileId] ELSE 0
         oldChunks == IF fileId \in DOMAIN receivedChunks[p]
                      THEN receivedChunks[p][fileId] ELSE <<>>
         currentBytes == old + Len(chunkData) IN
       IF ChunkDropped(p, fileId)
       THEN UNCHANGED <<receivedChunks, receivedBytes, speedTracker,
                        transfers, transfersRef>>
       ELSE /\ receivedChunks' = [receivedChunks EXCEPT ![p] =
                 MapSet(@, fileId, Append(oldChunks, chunkData))]
            /\ receivedBytes' = [receivedBytes EXCEPT ![p] =
                 MapSet(@, fileId, currentBytes)]
            /\ speedTracker' = [speedTracker EXCEPT ![p] =
                 IF SpeedDefined(p, fileId, elapsed)
                 THEN SpeedTrackerAfter(p, fileId, currentBytes) ELSE @]
            /\ IF SpeedDefined(p, fileId, elapsed)
                  \/ currentBytes < FIRST_BYTES_LIMIT
               THEN SetTransfers(p, WithProgress(transfers[p], fileId,
                                                 currentBytes))
               ELSE UNCHANGED <<transfers, transfersRef>>
  /\ wire' = Delivered(p)
  /\ lastEvent' = Event("RecvChunk", p, DecodeHeader(Head(wire[Other(p)]).data))
  /\ UNCHANGED <<connection, chatMessages, chunkSize, fileSize, userFiles, open, selected, cancelledFiles,
                 lastUpdateMap, jobs, timers, sendFailures>>

\* peerService.ts 72: new Uint8Array(data, 0, 36) throws a RangeError on an
\* ArrayBuffer shorter than the header; the data handler ends by the throw.
RecvShortBinary(p) ==
  /\ Arrives(p, TRUE, "")
  /\ Len(Head(wire[Other(p)]).data) < HEADER_LEN
  /\ wire' = Delivered(p)
  /\ lastEvent' = Event("RecvShortBinary", p, "")
  /\ UNCHANGED <<connection, chatMessages, chunkSize, fileSize, userFiles, open, selected, transfers,
                 transfersRef, receivedChunks, receivedBytes, speedTracker,
                 cancelledFiles, lastUpdateMap, jobs, timers, sendFailures>>

\* The binary messages of a remote end that does not follow the framing: one
\* shorter than the header, one whose header names no transfer.
ForeignData == {<<97>>, <<99, 49, 7>>}
IsForeign(m) ==
  m.binary /\ (Len(m.data) < HEADER_LEN \/ DecodeHeader(m.data) = UnknownId)

\* peerService.ts 69-71: the data handler takes whatever ArrayBuffer the
\* remote end p has sent.
ForeignBinary(p, data) ==
  /\ open
  /\ \A i \in 1..Len(wire[p]) : ~IsForeign(wire[p][i])
  /\ UnknownId \notin DOMAIN receivedChunks[Other(p)]
  /\ wire' = [wire EXCEPT ![p] = Append(@, BinaryMsg(data))]
  /\ lastEvent' = Event("ForeignBinary", p, "")
  /\ UNCHANGED <<connection, chatMessages, chunkSize, fileSize, userFiles, open, selected, transfers,
                 transfersRef, receivedChunks, receivedBytes, speedTracker,
                 cancelledFiles, lastUpdateMap, jobs, timers, sendFailures>>

\* peerService.ts 91, App.tsx 173-192
RecvFileComplete(p) ==
  /\ Arrives(p, FALSE, "file-complete")
  /\ LET fileId == Head(wire[Other(p)]).fileId
         chunks == IF fileId \in DOMAIN receivedChunks[p]
                   THEN receivedChunks[p][fileId] ELSE <<>> IN
       IF RefState(p, fileId) = CANCELLED \/ ~Has(transfers[p], fileId)
       THEN UNCHANGED <<transfers, transfersRef, receivedChunks,
                        receivedBytes, speedTracker>>
       ELSE /\ SetTransfers(p, WithCompleted(transfers[p], fileId, chunks))
            /\ receivedChunks' = [receivedChunks EXCEPT ![p] =
                 MapDelete(@, fileId)]
            /\ receivedBytes' = [receivedBytes EXCEPT ![p] =
                 MapDelete(@, fileId)]
            /\ speedTracker' = [speedTracker EXCEPT ![p] = MapDelete(@, fileId)]
  /\ wire' = Delivered(p)
  /\ lastEvent' = Event("RecvFileComplete", p, Head(wire[Other(p)]).fileId)
  /\ UNCHANGED <<connection, chatMessages, chunkSize, fileSize, userFiles, open, selected, cancelledFiles,
                 lastUpdateMap, jobs, timers, sendFailures>>

\* peerService.ts 91: handleData has no branch for all-complete.
RecvAllComplete(p) ==
  /\ Arrives(p, FALSE, "all-complete")
  /\ wire' = Delivered(p)
  /\ lastEvent' = Event("RecvAllComplete", p, "")
  /\ UNCHANGED <<connection, chatMessages, chunkSize, fileSize, userFiles, open, selected, transfers, transfersRef,
                 receivedChunks, receivedBytes, speedTracker, cancelledFiles,
                 lastUpdateMap, jobs, timers, sendFailures>>

\* ------------------------------------------------------- send loop steps
\* peerService.ts 187-211 and on to the next suspension: the slice has been
\* read and connection.send returns.  report: now - lastUpdate > 200.
ChunkSent(p, k, report) ==
  /\ Suspended(p, k, "read")
  /\ connection[p]
  /\ LET j == jobs[p][k]
         id == j.files[j.idx]
         payload == FileSlice(id, j.offsets[j.idx])
         offset == j.offsets[j.idx] + Len(payload)
         schedule == offset >= fileSize[id] \/ id \notin lastUpdateMap[p]
                     \/ report
         c == LoopHead([job |-> [j EXCEPT !.offsets[j.idx] = offset],
                        cancelled |-> cancelledFiles[p],
                        wire |-> ConnSend(wire[p],
                                          BinaryMsg(Packet(id, payload))),
                        lastUpdate |-> IF schedule
                                       THEN lastUpdateMap[p] \cup {id}
                                       ELSE lastUpdateMap[p]]) IN
       /\ StoreCtx(p, k, c)
       /\ timers' = [timers EXCEPT ![p] =
            IF schedule THEN Append(@, [id |-> id, job |-> k, idx |-> j.idx])
            ELSE @]
  /\ lastEvent' = Event("ChunkSent", p, jobs[p][k].files[jobs[p][k].idx])
  /\ UNCHANGED <<connection, chatMessages, chunkSize, fileSize, userFiles, open, selected, transfers, transfersRef,
                 receivedChunks, receivedBytes, speedTracker, sendFailures>>

\* peerService.ts 187: slice.arrayBuffer() rejects.  Nothing catches the
\* rejection in sendFileIndividual or in the loop of sendFiles (135-137): the
\* promise of sendFiles rejects and App.tsx 138 reports the error.
ReadRejects(p, k) ==
  /\ Suspended(p, k, "read")
  /\ jobs' = [jobs EXCEPT ![p][k].pc = "failed"]
  /\ lastEvent' = Event("ReadRejects", p, jobs[p][k].files[jobs[p][k].idx])
  /\ UNCHANGED <<connection, chatMessages, chunkSize, fileSize, userFiles, open, selected, transfers, transfersRef,
                 receivedChunks, receivedBytes, speedTracker, cancelledFiles,
                 lastUpdateMap, timers, wire, sendFailures>>

\* a catch that counts the chunk as sent before it waits
SendThrowsAdvancing(p, k) ==
  /\ Suspended(p, k, "read")
  /\ connection[p]
  /\ sendFailures < MaxSendFailures
  /\ sendFailures' = sendFailures + 1
  /\ jobs' = [jobs EXCEPT ![p][k].pc = "retry_wait",
                          ![p][k].offsets[jobs[p][k].idx] =
                             @ + Len(FileSlice(jobs[p][k].files[jobs[p][k].idx], @))]
  /\ lastEvent' = Event("SendThrows", p, jobs[p][k].files[jobs[p][k].idx])
  /\ UNCHANGED <<connection, chatMessages, chunkSize, fileSize, userFiles, open, selected, transfers, transfersRef,
                 receivedChunks, receivedBytes, speedTracker, cancelledFiles,
                 lastUpdateMap, timers, wire>>

\* peerService.ts 193-197: connection.send throws.
SendThrows(p, k) ==
  /\ Suspended(p, k, "read")
  /\ connection[p]
  /\ sendFailures < MaxSendFailures
  /\ sendFailures' = sendFailures + 1
  /\ jobs' = [jobs EXCEPT ![p][k].pc = "retry_wait"]
  /\ lastEvent' = Event("SendThrows", p, jobs[p][k].files[jobs[p][k].idx])
  /\ UNCHANGED <<connection, chatMessages, chunkSize, fileSize, userFiles, open, selected, transfers, transfersRef,
                 receivedChunks, receivedBytes, speedTracker, cancelledFiles,
                 lastUpdateMap, timers, wire>>

\* peerService.ts 197-198: the 200 ms delay is over, continue.
RetryDone(p, k) ==
  /\ Suspended(p, k, "retry_wait")
  /\ connection[p]
  /\ StoreCtx(p, k, LoopHead(LoopCtx(p, k)))
  /\ lastEvent' = Event("RetryDone", p, jobs[p][k].files[jobs[p][k].idx])
  /\ UNCHANGED <<connection, chatMessages, chunkSize, fileSize, userFiles, open, selected, transfers, transfersRef,
                 receivedChunks, receivedBytes, speedTracker, timers,
                 sendFailures>>

\* peerService.ts 166-172, 186-187: 'bufferedamountlow' (threshold 0, line 64)
BufferedAmountLow(p, k) ==
  /\ Suspended(p, k, "bp_wait")
  /\ BufferedAmount(wire[p]) = 0
  /\ jobs' = [jobs EXCEPT ![p][k].pc = "read"]
  /\ lastEvent' = Event("BufferedAmountLow", p, jobs[p][k].files[jobs[p][k].idx])
  /\ UNCHANGED <<connection, chatMessages, chunkSize, fileSize, userFiles, open, selected, transfers, transfersRef,
                 receivedChunks, receivedBytes, speedTracker, cancelledFiles,
                 lastUpdateMap, timers, wire, sendFailures>>

\* A watchdog that resumes the loop only once the buffer has drained.
WatchdogIfDrained(p, k) ==
  /\ Suspended(p, k, "bp_wait")
  /\ BufferedAmount(wire[p]) <= BUFFER_THRESHOLD
  /\ jobs' = [jobs EXCEPT ![p][k].pc = "read"]
  /\ lastEvent' = Event("Watchdog", p, jobs[p][k].files[jobs[p][k].idx])
  /\ UNCHANGED <<connection, chatMessages, chunkSize, fileSize, userFiles, open, selected, transfers, transfersRef,
                 receivedChunks, receivedBytes, speedTracker, cancelledFiles,
                 lastUpdateMap, timers, wire, sendFailures>>

\* peerService.ts 176-182, 186-187: the 500 ms watchdog
Watchdog(p, k) ==
  /\ Suspended(p, k, "bp_wait")
  /\ jobs' = [jobs EXCEPT ![p][k].pc = "read"]
  /\ lastEvent' = Event("Watchdog", p, jobs[p][k].files[jobs[p][k].idx])
  /\ UNCHANGED <<connection, chatMessages, chunkSize, fileSize, userFiles, open, selected, transfers, transfersRef,
                 receivedChunks, receivedBytes, speedTracker, cancelledFiles,
                 lastUpdateMap, timers, wire, sendFailures>>

\* peerService.ts 208 firing, App.tsx 122-137
ProgressCallback(p, elapsed) ==
  /\ timers[p] # <<>>
  /\ LET t == Head(timers[p])
         bytesSent == jobs[p][t.job].offsets[t.idx] IN
       /\ speedTracker' = [speedTracker EXCEPT ![p] =
            IF SpeedDefined(p, t.id, elapsed)
            THEN SpeedTrackerAfter(p, t.id, bytesSent) ELSE @]
       /\ IF SpeedDefined(p, t.id, elapsed) \/ bytesSent = 0
          THEN SetTransfers(p, WithProgress(transfers[p], t.id, bytesSent))
          ELSE UNCHANGED <<transfers, transfersRef>>
  /\ timers' = [timers EXCEPT ![p] = Tail(@)]
  /\ lastEvent' = Event("ProgressCallback", p, Head(timers[p]).id)
  /\ UNCHANGED <<connection, chatMessages, chunkSize, fileSize, userFiles, open, selected, receivedChunks,
                 receivedBytes, cancelledFiles, lastUpdateMap, jobs, wire,
                 sendFailures>>

\* App.tsx 263-277 with PeerService.destroy (219-226): the user of peer p
\* leaves the session.  The closed connection delivers nothing more to p.
Reset(p) ==
  /\ connection[p]
  /\ connection' = [connection EXCEPT ![p] = FALSE]
  /\ open' = FALSE
  /\ SetTransfersSync(p, <<>>)
  /\ chatMessages' = [chatMessages EXCEPT ![p] = <<>>]
  /\ receivedChunks' = [receivedChunks EXCEPT ![p] = EmptyMap]
  /\ receivedBytes' = [receivedBytes EXCEPT ![p] = EmptyMap]
  /\ speedTracker' = [speedTracker EXCEPT ![p] = EmptyMap]
  /\ lastUpdateMap' = [lastUpdateMap EXCEPT ![p] = {}]
  /\ cancelledFiles' = [cancelledFiles EXCEPT ![p] = {}]
  /\ wire' = [wire EXCEPT ![Other(p)] = <<>>]
  /\ lastEvent' = Event("Reset", p, "")
  /\ UNCHANGED <<chunkSize, fileSize, userFiles, selected, jobs, timers,
                 sendFailures>>

\* peerService.ts 193-198 after destroy: this.connection is null, so
\* this.connection.send throws a TypeError inside the try; the catch logs it
\* and waits 200 ms.
SendOnNull(p, k) ==
  /\ Suspended(p, k, "read")
  /\ ~connection[p]
  /\ jobs' = [jobs EXCEPT ![p][k].pc = "retry_wait"]
  /\ lastEvent' = Event("SendOnNull", p, jobs[p][k].files[jobs[p][k].idx])
  /\ UNCHANGED <<connection, chatMessages, chunkSize, fileSize, userFiles, open,
                 selected, transfers, transfersRef, receivedChunks, receivedBytes,
                 speedTracker, cancelledFiles, lastUpdateMap, timers, wire,
                 sendFailures>>

\* peerService.ts 198, 154-155, 213-215 after destroy: the loop leaves by the
\* break of line 155, cancelledFiles was cleared, and this.connection.send of
\* line 215 throws a TypeError nothing catches: the promise of sendFiles
\* rejects and App.tsx 138 reports the error.
RetryOnNull(p, k) ==
  /\ Suspended(p, k, "retry_wait")
  /\ ~connection[p]
  /\ jobs' = [jobs EXCEPT ![p][k].pc = "failed"]
  /\ lastEvent' = Event("RetryOnNull", p, jobs[p][k].files[jobs[p][k].idx])
  /\ UNCHANGED <<connection, chatMessages, chunkSize, fileSize, userFiles, open,
                 selected, transfers, transfersRef, receivedChunks, receivedBytes,
                 speedTracker, cancelledFiles, lastUpdateMap, timers, wire,
                 sendFailures>>

\* conn.on('close'): the connection is no longer open.
Close ==
  /\ open
  /\ open' = FALSE
  /\ lastEvent' = Event("Close", "", "")
  /\ UNCHANGED <<connection, chatMessages, chunkSize, fileSize, userFiles, selected, transfers, transfersRef,
                 receivedChunks, receivedBytes, speedTracker, cancelledFiles,
                 lastUpdateMap, jobs, timers, wire, sendFailures>>

\* -------------------------------------------------------------------- Next
JobIndex == 1..Cardinality(FileIds)

Next ==
  \/ \E pick \in SUBSET FileIds : HandleFileSelection("S", pick)
  \/ \E p \in Peers, ids \in SUBSET FileIds : AcceptFiles(p, ids)
  \/ \E p \in Peers, id \in FileIds : CancelTransfer(p, id)
  \/ \E p \in Peers : Render(p)
  \/ \E p \in Peers : RecvOffer(p)
  \/ \E p \in Peers : RecvCancel(p)
  \/ \E p \in Peers : RecvAnswer(p)
  \/ \E p \in Peers, elapsed \in BOOLEAN : RecvChunk(p, elapsed)
  \/ \E p \in Peers : RecvFileComplete(p)
  \/ \E p \in Peers : RecvAllComplete(p)
  \/ \E p \in Peers, k \in JobIndex, report \in BOOLEAN : ChunkSent(p, k, report)
  \/ \E p \in Peers, k \in JobIndex : ReadRejects(p, k)
  \/ \E p \in Peers, k \in JobIndex : SendThrows(p, k)
  \/ \E p \in Peers, k \in JobIndex : RetryDone(p, k)
  \/ \E p \in Peers, k \in JobIndex : BufferedAmountLow(p, k)
  \/ \E p \in Peers, k \in JobIndex : Watchdog(p, k)
  \/ \E p \in Peers, elapsed \in BOOLEAN : ProgressCallback(p, elapsed)
  \/ Close

Spec == Init /\ [][Next]_vars

\* Two files on one channel.
InitTwo ==
  /\ chunkSize = 1
  /\ fileSize = [id \in FileIds |-> TwoFileSize]
  /\ open = TRUE
  /\ userFiles = FileIds
  /\ selected = {}
  /\ transfers = [p \in Peers |-> <<>>]
  /\ transfersRef = [p \in Peers |-> <<>>]
  /\ receivedChunks = [p \in Peers |-> EmptyMap]
  /\ receivedBytes = [p \in Peers |-> EmptyMap]
  /\ speedTracker = [p \in Peers |-> EmptyMap]
  /\ cancelledFiles = [p \in Peers |-> {}]
  /\ lastUpdateMap = [p \in Peers |-> {}]
  /\ jobs = [p \in Peers |-> <<>>]
  /\ timers = [p \in Peers |-> <<>>]
  /\ wire = [p \in Peers |-> <<>>]
  /\ sendFailures = 0
  /\ connection = [p \in Peers |-> TRUE]
  /\ chatMessages = [p \in Peers |-> <<>>]
  /\ lastEvent = Event("Init", "", "")

\* Both files are selected in one file dialog and accepted in one answer;
\* either user may cancel "b"; the connection stays up.
NextTwo ==
  \/ HandleFileSelection("S", FileIds)
  \/ \E p \in Peers : AcceptFiles(p, FileIds)
  \/ \E p \in Peers : CancelTransfer(p, "b")
  \/ \E p \in Peers : Render(p)
  \/ \E p \in Peers : RecvOffer(p)
  \/ \E p \in Peers : RecvCancel(p)
  \/ \E p \in Peers : RecvAnswer(p)
  \/ \E p \in Peers, elapsed \in BOOLEAN : RecvChunk(p, elapsed)
  \/ \E p \in Peers : RecvFileComplete(p)
  \/ \E p \in Peers : RecvAllComplete(p)
  \/ \E p \in Peers, k \in JobIndex, report \in BOOLEAN : ChunkSent(p, k, report)
  \/ \E p \in Peers, k \in JobIndex : BufferedAmountLow(p, k)
  \/ \E p \in Peers, k \in JobIndex : Watchdog(p, k)
  \/ \E p \in Peers, elapsed \in BOOLEAN : ProgressCallback(p, elapsed)

SpecTwo == InitTwo /\ [][NextTwo]_vars

\* One file, every length and chunk size, no cancellation, no failure.
InitRoundTrip ==
  /\ chunkSize \in 1..MaxRoundTripChunk
  /\ userFiles = {"a"}
  /\ fileSize \in {f \in [FileIds -> 0..MaxRoundTripSize] :
                    \A id \in FileIds \ userFiles : f[id] = 0}
  /\ open = TRUE
  /\ selected = {}
  /\ transfers = [p \in Peers |-> <<>>]
  /\ transfersRef = [p \in Peers |-> <<>>]
  /\ receivedChunks = [p \in Peers |-> EmptyMap]
  /\ receivedBytes = [p \in Peers |-> EmptyMap]
  /\ speedTracker = [p \in Peers |-> EmptyMap]
  /\ cancelledFiles = [p \in Peers |-> {}]
  /\ lastUpdateMap = [p \in Peers |-> {}]
  /\ jobs = [p \in Peers |-> <<>>]
  /\ timers = [p \in Peers |-> <<>>]
  /\ wire = [p \in Peers |-> <<>>]
  /\ sendFailures = 0
  /\ connection = [p \in Peers |-> TRUE]
  /\ chatMessages = [p \in Peers |-> <<>>]
  /\ lastEvent = Event("Init", "", "")

NextRoundTrip ==
  \/ \E pick \in SUBSET FileIds : HandleFileSelection("S", pick)
  \/ \E p \in Peers, ids \in SUBSET FileIds : AcceptFiles(p, ids)
  \/ \E p \in Peers : Render(p)
  \/ \E p \in Peers : RecvOffer(p)
  \/ \E p \in Peers : RecvAnswer(p)
  \/ \E p \in Peers, elapsed \in BOOLEAN : RecvChunk(p, elapsed)
  \/ \E p \in Peers : RecvFileComplete(p)
  \/ \E p \in Peers : RecvAllComplete(p)
  \/ \E p \in Peers, k \in JobIndex, report \in BOOLEAN : ChunkSent(p, k, report)
  \/ \E p \in Peers, k \in JobIndex : BufferedAmountLow(p, k)
  \/ \E p \in Peers, k \in JobIndex : Watchdog(p, k)
  \/ \E p \in Peers, elapsed \in BOOLEAN : ProgressCallback(p, elapsed)

SpecRoundTrip == InitRoundTrip /\ [][NextRoundTrip]_vars

\* Two files of one offer accepted in any grouping: two answers start two
\* runs of sendFiles whose chunks share the channel.  No cancellation, no
\* failure.
InitInterleave ==
  /\ chunkSize = 1
  /\ fileSize = [id \in FileIds |-> IF id = "a" THEN InterleaveFileSize ELSE 1]
  /\ open = TRUE
  /\ userFiles = FileIds
  /\ selected = {}
  /\ transfers = [p \in Peers |-> <<>>]
  /\ transfersRef = [p \in Peers |-> <<>>]
  /\ receivedChunks = [p \in Peers |-> EmptyMap]
  /\ receivedBytes = [p \in Peers |-> EmptyMap]
  /\ speedTracker = [p \in Peers |-> EmptyMap]
  /\ cancelledFiles = [p \in Peers |-> {}]
  /\ lastUpdateMap = [p \in Peers |-> {}]
  /\ jobs = [p \in Peers |-> <<>>]
  /\ timers = [p \in Peers |-> <<>>]
  /\ wire = [p \in Peers |-> <<>>]
  /\ sendFailures = 0
  /\ connection = [p \in Peers |-> TRUE]
  /\ chatMessages = [p \in Peers |-> <<>>]
  /\ lastEvent = Event("Init", "", "")

SpecInterleave == InitInterleave /\ [][NextRoundTrip]_vars

\* A batch of two files selected and accepted together; the sender may
\* cancel either, a read may reject and the connection may close.
InitBatch ==
  /\ chunkSize = 1
  /\ fileSize = [id \in FileIds |-> IF id = "a" THEN 1 ELSE BatchFileSize]
  /\ open = TRUE
  /\ userFiles = FileIds
  /\ selected = {}
  /\ transfers = [p \in Peers |-> <<>>]
  /\ transfersRef = [p \in Peers |-> <<>>]
  /\ receivedChunks = [p \in Peers |-> EmptyMap]
  /\ receivedBytes = [p \in Peers |-> EmptyMap]
  /\ speedTracker = [p \in Peers |-> EmptyMap]
  /\ cancelledFiles = [p \in Peers |-> {}]
  /\ lastUpdateMap = [p \in Peers |-> {}]
  /\ jobs = [p \in Peers |-> <<>>]
  /\ timers = [p \in Peers |-> <<>>]
  /\ wire = [p \in Peers |-> <<>>]
  /\ sendFailures = 0
  /\ connection = [p \in Peers |-> TRUE]
  /\ chatMessages = [p \in Peers |-> <<>>]
  /\ lastEvent = Event("Init", "", "")

NextBatch ==
  \/ HandleFileSelection("S", FileIds)
  \/ \E p \in Peers : AcceptFiles(p, FileIds)
  \/ \E id \in FileIds : CancelTransfer("S", id)
  \/ \E p \in Peers : Render(p)
  \/ \E p \in Peers : RecvOffer(p)
  \/ \E p \in Peers : RecvCancel(p)
  \/ \E p \in Peers : RecvAnswer(p)
  \/ \E p \in Peers, elapsed \in BOOLEAN : RecvChunk(p, elapsed)
  \/ \E p \in Peers : RecvFileComplete(p)
  \/ \E p \in Peers : RecvAllComplete(p)
  \/ \E p \in Peers, k \in JobIndex, report \in BOOLEAN : ChunkSent(p, k, report)
  \/ \E p \in Peers, k \in JobIndex : ReadRejects(p, k)
  \/ \E p \in Peers, k \in JobIndex : BufferedAmountLow(p, k)
  \/ \E p \in Peers, k \in JobIndex : Watchdog(p, k)
  \/ \E p \in Peers, elapsed \in BOOLEAN : ProgressCallback(p, elapsed)
  \/ Close

SpecBatch == InitBatch /\ [][NextBatch]_vars

\* One file sent in chunks of one byte, with cancels and a close.  The timer
\* of peerService.ts 176 fires 500 ms after it was set: a watchdog that can
\* fire does fire.
InitWatchdog == Init /\ chunkSize = 1 /\ fileSize["a"] = MaxFileSize

NextWatchdog ==
  \/ NextRoundTrip
  \/ \E p \in Peers : CancelTransfer(p, "a")
  \/ \E p \in Peers : RecvCancel(p)
  \/ Close

SpecWatchdog ==
  /\ InitWatchdog /\ [][NextWatchdog]_vars
  /\ \A p \in Peers : \A k \in JobIndex : WF_vars(Watchdog(p, k))

\* One file sent to a receiver whose remote end also sends binary messages
\* outside the framing.
NextForeign ==
  \/ NextRoundTrip
  \/ \E data \in ForeignData : ForeignBinary("S", data)
  \/ \E p \in Peers : RecvShortBinary(p)

SpecForeign == Init /\ [][NextForeign]_vars

\* peerService.ts 91: the data handler passes on whatever answer the remote
\* end p has sent.  This one names ids the other end has no outgoing
\* record of: ids it does not know or ids of its incoming records.  It is
\* sent when everything p sent before has been delivered.
ForeignAnswer(p, ids) ==
  /\ open
  /\ ids # {}
  /\ \A i \in 1..Len(transfers[Other(p)]) :
       transfers[Other(p)][i].id \in ids => transfers[Other(p)][i].isIncoming
  /\ wire[p] = <<>>
  /\ wire' = [wire EXCEPT ![p] = Append(@, AnswerMsg(ids))]
  /\ lastEvent' = Event("ForeignAnswer", p, "")
  /\ UNCHANGED <<connection, chatMessages, chunkSize, fileSize, userFiles, open, selected, transfers,
                 transfersRef, receivedChunks, receivedBytes, speedTracker,
                 cancelledFiles, lastUpdateMap, jobs, timers, sendFailures>>

\* One file sent to a receiver that also receives answers, for its incoming
\* record and for an id it does not know.
NextAnswer ==
  \/ NextRoundTrip
  \/ \E ids \in SUBSET FileIds : ForeignAnswer("S", ids)

InitAnswer == Init /\ chunkSize = 1 /\ fileSize["a"] = AnswerFileSize

SpecAnswer == InitAnswer /\ [][NextAnswer]_vars

\* peerService.ts 111-114: sendAnswer sends whatever ids it is given.  The
\* remote end p names again ids it has accepted, while fewer than two runs
\* of sendFiles have been started or are about to be.
RepeatedAnswer(p, ids) ==
  /\ open
  /\ ids # {}
  /\ \A id \in ids : \E i \in 1..Len(transfers[p]) :
       /\ transfers[p][i].id = id /\ transfers[p][i].isIncoming
       /\ transfers[p][i].state \in {QUEUED, TRANSFERRING}
  /\ Len(jobs[Other(p)])
       + Cardinality({i \in 1..Len(wire[p]) :
                        ~wire[p][i].binary /\ wire[p][i].type = "answer"})
       < Cardinality(FileIds)
  /\ wire' = [wire EXCEPT ![p] = Append(@, AnswerMsg(ids))]
  /\ lastEvent' = Event("RepeatedAnswer", p, "")
  /\ UNCHANGED <<connection, chatMessages, chunkSize, fileSize, userFiles, open, selected, transfers,
                 transfersRef, receivedChunks, receivedBytes, speedTracker,
                 cancelledFiles, lastUpdateMap, jobs, timers, sendFailures>>

\* One file, every length and chunk size, whose sends may throw and which
\* either user may cancel; the connection stays up.
NextRetry ==
  \/ NextRoundTrip
  \/ \E p \in Peers, id \in FileIds : CancelTransfer(p, id)
  \/ \E p \in Peers : RecvCancel(p)
  \/ \E p \in Peers, k \in JobIndex : SendThrows(p, k)
  \/ \E p \in Peers, k \in JobIndex : RetryDone(p, k)

SpecRetry == Init /\ [][NextRetry]_vars

\* One file sent while either user may leave the session.
NextReset ==
  \/ NextRoundTrip
  \/ \E p \in Peers : Reset(p)
  \/ \E p \in Peers, k \in JobIndex : SendOnNull(p, k)
  \/ \E p \in Peers, k \in JobIndex : RetryOnNull(p, k)

SpecReset == Init /\ [][NextReset]_vars

\* One file whose receiver answers more than once.
InitRepeat == Init /\ chunkSize = 1 /\ fileSize["a"] = RepeatFileSize

NextRepeat ==
  \/ NextRoundTrip
  \/ \E ids \in SUBSET FileIds : RepeatedAnswer("R", ids)

SpecRepeat == InitRepeat /\ [][NextRepeat]_vars

\* The header decode as a function: a header that holds the id of a file
\* followed by any padding of null bytes and spaces is decoded.
Pads == UNION {[1..n -> {NUL, SPACE}] : n \in 0..MaxPad}

InitCodec ==
  /\ chunkSize = 1
  /\ fileSize = [id \in FileIds |-> 0]
  /\ open = TRUE
  /\ userFiles \in {{id} : id \in FileIds}
  /\ selected = {}
  /\ transfers = [p \in Peers |-> <<>>]
  /\ transfersRef = [p \in Peers |-> <<>>]
  /\ receivedChunks = [p \in Peers |-> EmptyMap]
  /\ receivedBytes = [p \in Peers |-> EmptyMap]
  /\ speedTracker = [p \in Peers |-> EmptyMap]
  /\ cancelledFiles = [p \in Peers |-> {}]
  /\ lastUpdateMap = [p \in Peers |-> {}]
  /\ jobs = [p \in Peers |-> <<>>]
  /\ timers = [p \in Peers |-> <<>>]
  /\ \E id \in userFiles, pad \in Pads :
       wire = [p \in Peers |-> IF p = "S"
                                THEN <<BinaryMsg(IdBytes(id) \o pad)>>
                                ELSE <<>>]
  /\ sendFailures = 0
  /\ connection = [p \in Peers |-> TRUE]
  /\ chatMessages = [p \in Peers |-> <<>>]
  /\ lastEvent = Event("Init", "", "")

\* peerService.ts 72-73 applied to the whole header of the arrived message.
DecodeArrived(p) ==
  /\ Arrives(p, TRUE, "")
  /\ lastEvent.op = "Init"
  /\ lastEvent' = Event("DecodeArrived", p,
                        IdOfBytes(HeaderText(Head(wire[Other(p)]).data)))
  /\ UNCHANGED <<connection, chatMessages, chunkSize, fileSize, userFiles, open, selected, transfers,
                 transfersRef, receivedChunks, receivedBytes, speedTracker,
                 cancelledFiles, lastUpdateMap, jobs, timers, wire,
                 sendFailures>>

NextCodec == \E p \in Peers : DecodeArrived(p)

SpecCodec == InitCodec /\ [][NextCodec]_vars

\* The framing as a function: a packet built from any id that fits the
\* header, has no whitespace at either end and no null character, and from
\* any payload, is decoded.  Ids are the bytes of their characters.
IdChars == {65, 66, SPACE}
PayloadBytes == {NUL, SPACE, 65}
FrameIds ==
  {s \in UNION {[1..n -> IdChars] : n \in 0..HEADER_LEN} : Trim(s) = s}
Payloads == UNION {[1..n -> PayloadBytes] : n \in 0..MaxPayload}

InitFrame ==
  /\ chunkSize = 1
  /\ fileSize = [id \in FileIds |-> 0]
  /\ open = TRUE
  /\ userFiles = {}
  /\ selected = {}
  /\ transfers = [p \in Peers |-> <<>>]
  /\ transfersRef = [p \in Peers |-> <<>>]
  /\ receivedChunks = [p \in Peers |-> EmptyMap]
  /\ receivedBytes = [p \in Peers |-> EmptyMap]
  /\ speedTracker = [p \in Peers |-> EmptyMap]
  /\ cancelledFiles = [p \in Peers |-> {}]
  /\ lastUpdateMap = [p \in Peers |-> {}]
  /\ jobs = [p \in Peers |-> <<>>]
  /\ timers = [p \in Peers |-> <<>>]
  /\ \E idBytes \in FrameIds, payload \in Payloads :
       wire = [p \in Peers |->
                 IF p = "S" THEN <<BinaryMsg(Frame(idBytes, payload))>> ELSE <<>>]
  /\ sendFailures = 0
  /\ connection = [p \in Peers |-> TRUE]
  /\ chatMessages = [p \in Peers |-> <<>>]
  /\ lastEvent = Event("Init", "", "")

\* peerService.ts 71-85 with App.tsx 146-153: the id is the text of the
\* header, the payload is appended to the list of that id.
FrameArrived(p) ==
  /\ Arrives(p, TRUE, "")
  /\ lastEvent.op = "Init"
  /\ LET data == Head(wire[Other(p)]).data
         fileId == HeaderText(SubSeq(data, 1, HEADER_LEN))
         chunkData == DecodePayload(data) IN
       /\ receivedChunks' = [receivedChunks EXCEPT ![p] =
            MapSet(@, fileId, <<chunkData>>)]
       /\ receivedBytes' = [receivedBytes EXCEPT ![p] =
            MapSet(@, fileId, Len(chunkData))]
       /\ lastEvent' = Event("FrameArrived", p, fileId)
  /\ UNCHANGED <<connection, chatMessages, chunkSize, fileSize, userFiles, open,
                 selected, transfers, transfersRef, speedTracker, cancelledFiles,
                 lastUpdateMap, jobs, timers, wire, sendFailures>>

NextFrame == \E p \in Peers : FrameArrived(p)

SpecFrame == InitFrame /\ [][NextFrame]_vars

\* ----------------------------------------------------------------- chat
\* What the user may have typed into the chat box.
ChatInputs == {"", " ", "x", "y"}

\* App.tsx 257: !chatInput.trim()
IsBlank(chatInput) == chatInput \in {"", " "}

\* peerService.ts 119: { type: 'chat', text, timestamp }
ChatMsg(text) ==
  [binary |-> FALSE, type |-> "chat", fileId |-> "", fileIds |-> {},
   files |-> NoFiles, data |-> <<>>, text |-> text]

\* a list that takes the new message at its front
ChatPrepend(prev, sender, text) ==
  <<[sender |-> sender, text |-> text]>> \o prev

\* App.tsx 91 and 259: [...prev, { id, sender, text, timestamp }]
ChatAppend(prev, sender, text) ==
  Append(prev, [sender |-> sender, text |-> text])

IsMine(m) == m.sender = "me"
IsPeers(m) == m.sender = "peer"

\* App.tsx 255-261 with PeerService.sendChat (peerService.ts 116-120)
HandleSendChat(p, chatInput) ==
  /\ ~IsBlank(chatInput)
  /\ open
  /\ Len(SelectSeq(chatMessages[p], IsMine)) < MaxChats
  /\ wire' = [wire EXCEPT ![p] =
       IF connection[p] THEN ConnSend(@, ChatMsg(chatInput)) ELSE @]
  /\ chatMessages' = [chatMessages EXCEPT ![p] = ChatAppend(@, "me", chatInput)]
  /\ lastEvent' = Event("HandleSendChat", p, "")
  /\ UNCHANGED <<connection, chunkSize, fileSize, userFiles, open, selected,
                 transfers, transfersRef, receivedChunks, receivedBytes,
                 speedTracker, cancelledFiles, lastUpdateMap, jobs, timers,
                 sendFailures>>

\* peerService.ts 86-92, App.tsx 90-92
RecvChat(p) ==
  /\ Arrives(p, FALSE, "chat")
  /\ chatMessages' = [chatMessages EXCEPT ![p] =
       ChatAppend(@, "peer", Head(wire[Other(p)]).text)]
  /\ wire' = Delivered(p)
  /\ lastEvent' = Event("RecvChat", p, "")
  /\ UNCHANGED <<connection, chunkSize, fileSize, userFiles, open, selected,
                 transfers, transfersRef, receivedChunks, receivedBytes,
                 speedTracker, cancelledFiles, lastUpdateMap, jobs, timers,
                 sendFailures>>

\* One file sent while its sender writes chat messages.
InitChat == Init /\ chunkSize = 1 /\ fileSize["a"] = ChatFileSize

NextChat ==
  \/ NextRoundTrip
  \/ \E chatInput \in ChatInputs : HandleSendChat("S", chatInput)
  \/ \E p \in Peers : RecvChat(p)

SpecChat == InitChat /\ [][NextChat]_vars


\* ------------------------------------------------------------------ claims
Records(p) == {transfers[p][i] : i \in 1..Len(transfers[p])}

\* C1. Round-trip integrity: without cancellation or failure, the bytes
\* assembled on file-complete from the chunks the send loop produced are the
\* bytes of the file, for every file length and every chunk size.
C1_RoundTripIntegrity ==
  \A p \in Peers : \A t \in Records(p) :
    t.state = COMPLETED => t.hasBlob /\ t.blob = FileBytes(t.id)

\* A file of two full chunks and a shorter last one has been reassembled.
C1_Witness ==
  \E t \in Records("R") :
    /\ t.state = COMPLETED /\ t.isIncoming
    /\ chunkSize = 2 /\ fileSize[t.id] = 3 /\ Len(t.blob) = 3

\* C2. Completion accounting: a record is COMPLETED only with exactly
\* byteSize bytes received and assembled, and with progress at byteSize.
C2_CompletionAccounting ==
  \A p \in Peers : \A t \in Records(p) :
    t.state = COMPLETED => Len(t.blob) = t.size /\ t.progress = t.size

\* A file of several chunks is COMPLETED at the receiver.
C2_Witness ==
  \E t \in Records("R") :
    t.state = COMPLETED /\ t.size = MaxFileSize /\ chunkSize = 1

\* The step just taken is handler op of peer p for transfer id.
Did(op, p, id) == lastEvent' = Event(op, p, id)

\* The number of messages of a wire that satisfy Test.
Count(w, Test(_)) == Cardinality({i \in 1..Len(w) : Test(w[i])})

IsFileComplete(id, m) == ~m.binary /\ m.type = "file-complete" /\ m.fileId = id

\* C3. COMPLETED is terminal: once a record is COMPLETED, no later event (a
\* cancel sent or received, a late chunk, an answer, acceptFiles, a progress
\* callback) changes its state.
C3_CompletedTerminal ==
  [][\A p \in Peers : \A i \in 1..Len(transfers[p]) :
       transfers[p][i].state = COMPLETED =>
         /\ i <= Len(transfers'[p])
         /\ transfers'[p][i].state = COMPLETED]_vars

\* C4. CANCELLED is terminal and inert: once a record is CANCELLED, no later
\* event changes its state or its bytes moved, and the record stays in the
\* registry.
C4_CancelledTerminal ==
  [][\A p \in Peers : \A i \in 1..Len(transfers[p]) :
       transfers[p][i].state = CANCELLED =>
         /\ i <= Len(transfers'[p])
         /\ transfers'[p][i].id = transfers[p][i].id
         /\ transfers'[p][i].state = CANCELLED
         /\ transfers'[p][i].progress = transfers[p][i].progress]_vars

\* What a cancel of id leaves at peer p: the record, when there is one, is
\* CANCELLED, and neither a chunk list nor a byte counter is kept for id.
CancelledAndEmpty(ts, chunks, bytes, id) ==
  /\ \A i \in 1..Len(ts) : ts[i].id = id => ts[i].state = CANCELLED
  /\ id \notin DOMAIN chunks
  /\ id \notin DOMAIN bytes

\* C5. Cancellation is idempotent: every cancel of an id at a peer, local
\* (cancelTransfer) or received (a cancel message), leaves the record
\* CANCELLED with no buffered data for the id, and a cancel applied where a
\* cancel has already left that state changes neither the registry nor the
\* receive buffers.
C5_CancelIdempotent ==
  [][\A p \in Peers : \A id \in FileIds :
       (Did("CancelTransfer", p, id) \/ Did("RecvCancel", p, id)) =>
         /\ CancelledAndEmpty(transfers'[p], receivedChunks'[p],
                              receivedBytes'[p], id)
         /\ CancelledAndEmpty(transfers[p], receivedChunks[p],
                              receivedBytes[p], id) =>
              /\ transfers'[p] = transfers[p]
              /\ receivedChunks'[p] = receivedChunks[p]
              /\ receivedBytes'[p] = receivedBytes[p]]_vars

\* The receiver has just handled the sender's cancel of a file it had
\* already cancelled itself: its own cancel message is still on its way.
C5_Witness ==
  /\ lastEvent = Event("RecvCancel", "R", "a")
  /\ \E i \in 1..Len(wire["R"]) :
       ~wire["R"][i].binary /\ wire["R"][i].type = "cancel"
       /\ wire["R"][i].fileId = "a"
  /\ \E t \in Records("R") : t.id = "a" /\ t.state = CANCELLED

\* C6. Cancel/chunk race at the receiver: a chunk that arrives for an id
\* after that id was cancelled locally or by a received cancel message is
\* dropped: it allocates no chunk list and no byte counter for the id and
\* changes no record.
C6_LateChunkDropped ==
  [][\A p \in Peers : \A id \in FileIds :
       (Did("RecvChunk", p, id) /\ id \in cancelledFiles[p]) =>
         /\ id \notin DOMAIN receivedChunks'[p]
         /\ id \notin DOMAIN receivedBytes'[p]
         /\ receivedChunks'[p] = receivedChunks[p]
         /\ receivedBytes'[p] = receivedBytes[p]
         /\ transfers'[p] = transfers[p]]_vars

\* A chunk of a cancelled file has just been handled by the receiver, whose
\* rendered list does not show the cancellation yet.
C6_Witness ==
  /\ lastEvent = Event("RecvChunk", "R", "a")
  /\ "a" \in cancelledFiles["R"]
  /\ \E t \in Records("R") : t.id = "a" /\ t.state = CANCELLED
  /\ transfersRef["R"] # transfers["R"]

\* Nothing is in flight, every send loop has returned, every timer has fired
\* and the rendered lists are current.
Quiescent ==
  /\ \A p \in Peers : wire[p] = <<>> /\ timers[p] = <<>>
  /\ \A p \in Peers : \A k \in 1..Len(jobs[p]) : jobs[p][k].pc = "done"
  /\ transfersRef = transfers

\* Files a and b were accepted together and the loop of b was stopped by a
\* cancel after it had sent some of b's chunks.
CancelledAfterSomeChunks ==
  \E k \in 1..Len(jobs["S"]) :
    /\ jobs["S"][k].files = FileOrder
    /\ jobs["S"][k].returned[2] = "cancelled"
    /\ jobs["S"][k].offsets[2] >= 1

\* C7. Two-file scenario: a and b are accepted together and b is cancelled
\* after some chunks of both have been sent.  Then a is COMPLETED with all
\* its bytes, b is CANCELLED on both sides with no receive buffer left for
\* it, and the bytes moved of b do not change once it is CANCELLED.
C7_TwoFileScenario ==
  /\ [](Quiescent /\ CancelledAfterSomeChunks =>
          /\ \E t \in Records("R") :
               /\ t.id = "a" /\ t.state = COMPLETED
               /\ t.blob = FileBytes("a") /\ t.progress = t.size
          /\ \A p \in Peers : \E t \in Records(p) :
               t.id = "b" /\ t.state = CANCELLED
          /\ "b" \notin DOMAIN receivedChunks["R"]
          /\ "b" \notin DOMAIN receivedBytes["R"])
  /\ [][\A p \in Peers : \A i \in 1..Len(transfers[p]) :
          (transfers[p][i].id = "b" /\ transfers[p][i].state = CANCELLED) =>
            transfers'[p][i].progress = transfers[p][i].progress]_vars

\* C8. Progress monotonicity: the bytes moved of a record never decrease
\* while it is not terminal, and do not change once it is CANCELLED.
C8_ProgressMonotone ==
  [][\A p \in Peers : \A i \in 1..Len(transfers[p]) :
       /\ transfers[p][i].state \notin {COMPLETED, CANCELLED} =>
            transfers'[p][i].progress >= transfers[p][i].progress
       /\ transfers[p][i].state = CANCELLED =>
            transfers'[p][i].progress = transfers[p][i].progress]_vars

\* C9. Sender stop on cancellation: when the send loop of a file returns
\* because the id is in the cancelled set, the loop sends no file-complete
\* for the id, and the id is not in the cancelled set once it has returned.
C9_SenderStop ==
  [][\A p \in Peers : \A k \in 1..Len(jobs'[p]) :
       \A i \in 1..Len(jobs'[p][k].files) :
         LET id == jobs'[p][k].files[i]
             before == IF k <= Len(jobs[p]) THEN jobs[p][k].returned[i]
                       ELSE ""
             IsComplete(m) == IsFileComplete(id, m) IN
         (before = "" /\ jobs'[p][k].returned[i] = "cancelled") =>
           /\ Count(wire'[p], IsComplete) <= Count(wire[p], IsComplete)
           /\ id \notin cancelledFiles'[p]]_vars

\* C10. Interruptible suspension: once an id is in the cancelled set, the
\* send loop sends no further chunk of it, also when the id was added while
\* the loop waited for the buffer to drain or for the read of a slice.
C10_NoChunkAfterCancel ==
  [][\A p \in Peers : \A id \in FileIds :
       id \in cancelledFiles[p] => ~Did("ChunkSent", p, id)]_vars

\* C11. Backpressure safety: a chunk is sent only when the outbound buffer
\* occupancy of the channel is at or below the backpressure threshold; a loop
\* that found it above the threshold stays suspended until it has drained.
C11_BackpressureSafety ==
  [][\A p \in Peers : \A id \in FileIds :
       Did("ChunkSent", p, id) =>
         BufferedAmount(wire[p]) <= BUFFER_THRESHOLD]_vars

\* C12. Backpressure watchdog liveness: a send loop suspended in the
\* backpressure wait always resumes, also when the transport never fires
\* 'bufferedamountlow'; the wait is resolved once: only a waiting loop is
\* resumed, and a resumed loop waits no longer.
C12_WatchdogLiveness ==
  /\ \A p \in Peers : \A k \in JobIndex :
       Suspended(p, k, "bp_wait") ~> ~Suspended(p, k, "bp_wait")
  /\ [][\A p \in Peers : \A id \in FileIds :
          (Did("Watchdog", p, id) \/ Did("BufferedAmountLow", p, id)) =>
            \E k \in 1..Len(jobs[p]) :
              /\ jobs[p][k].pc = "bp_wait"
              /\ jobs'[p][k] = [jobs[p][k] EXCEPT !.pc = "read"]
              /\ \A j \in 1..Len(jobs[p]) : j # k => jobs'[p][j] = jobs[p][j]]_vars

\* The watchdog has just resumed a loop whose channel is still above the
\* threshold: no 'bufferedamountlow' could have fired.
C12_Witness ==
  /\ lastEvent = Event("Watchdog", "S", "a")
  /\ BufferedAmount(wire["S"]) > BUFFER_THRESHOLD
  /\ \E k \in 1..Len(jobs["S"]) : jobs["S"][k].pc = "read"

\* C13. Bounded send retry: the sends of a file that throw are retried a
\* bounded number of times (MaxSendFailures stands for the bound); once that
\* many sends have thrown the loop does not try again: the file is abandoned
\* with an error.
C13_BoundedRetry ==
  [][\A p \in Peers : \A id \in FileIds :
       (Did("RetryDone", p, id) /\ sendFailures = MaxSendFailures) =>
         \A k \in 1..Len(jobs[p]) :
           jobs[p][k].pc = "retry_wait" => jobs'[p][k].pc = "failed"]_vars

\* Job k of peer p has, in this step, run line 215 for its i-th file.
CompletesFile(p, k, i) ==
  /\ jobs'[p][k].returned[i] = "completed"
  /\ (k <= Len(jobs[p]) => jobs[p][k].returned[i] = "")

\* C14. file-complete ordering: file-complete is sent for a file only after
\* chunks covering all its bytes have been sent, never after the loop left
\* early (the connection no longer open), and at most once per run of the
\* file's send loop.
C14_FileCompleteOrdering ==
  [][\A p \in Peers : \A k \in 1..Len(jobs'[p]) :
       \A i \in 1..Len(jobs'[p][k].files) :
         LET id == jobs'[p][k].files[i]
             IsComplete(m) == IsFileComplete(id, m) IN
         /\ CompletesFile(p, k, i) =>
              jobs'[p][k].offsets[i] = fileSize[id]
         /\ Count(wire'[p], IsComplete) > Count(wire[p], IsComplete) =>
              /\ CompletesFile(p, k, i)
              /\ Count(wire'[p], IsComplete) = Count(wire[p], IsComplete) + 1]_vars

IsAllComplete(m) == ~m.binary /\ m.type = "all-complete"
IsOfBatch(m) == m.binary \/ m.type = "file-complete"

\* Job k of peer p has, in this step, passed line 139.
EndsBatch(p, k) ==
  /\ jobs'[p][k].pc = "done"
  /\ (k <= Len(jobs[p]) => jobs[p][k].pc # "done")

C16_SiblingIsolation ==
  \A p \in Peers : \A k \in 1..Len(jobs[p]) :
    jobs[p][k].pc = "failed" =>
      \A i \in 1..Len(jobs[p][k].files) :
        i # jobs[p][k].idx => jobs[p][k].returned[i] # ""

\* C17. Connection-level failure: once the close of the channel has been
\* handled, no record of either side is PENDING, QUEUED or TRANSFERRING:
\* every record that was not terminal has been moved to a terminal state.
C17_CloseTerminatesAll ==
  ~open =>
    \A p \in Peers : \A t \in Records(p) :
      t.state \notin {PENDING, QUEUED, TRANSFERRING}

\* C18. Protocol violation handling: a binary message shorter than the
\* header, or a chunk whose decoded id matches no record, is dropped: the
\* data handler does not throw, allocates no receive buffer and no byte
\* counter for it, and changes no record.
C18_ViolationDropped ==
  [][\A p \in Peers :
       /\ ~Did("RecvShortBinary", p, "")
       /\ \A id \in FileIds \cup {UnknownId} :
            (Did("RecvChunk", p, id) /\ ~Has(transfers[p], id)) =>
              /\ receivedChunks'[p] = receivedChunks[p]
              /\ receivedBytes'[p] = receivedBytes[p]
              /\ transfers'[p] = transfers[p]]_vars

\* The records of id are CANCELLED on both sides.
CancelledOnBothSides(ts, id) ==
  \A p \in Peers : \E i \in 1..Len(ts[p]) :
    ts[p][i].id = id /\ ts[p][i].state = CANCELLED

\* C19. Cancellation propagation: after either side has cancelled a transfer
\* and the cancel message has been delivered, so that the records of the id
\* are CANCELLED on both sides, they remain CANCELLED on both sides.
C19_CancelPropagates ==
  [][\A id \in FileIds :
       CancelledOnBothSides(transfers, id) =>
         CancelledOnBothSides(transfers', id)]_vars

\* C20. Completion liveness on both sides: a transfer that was offered and
\* accepted, is never cancelled and whose messages are all delivered ends
\* COMPLETED on the receiving side and on the sending side: when the batch
\* has ended and nothing is left to deliver, fire or render, both records
\* are COMPLETED.
C20_CompletionBothSides ==
  (Quiescent /\ jobs["S"] # <<>>) =>
    \A p \in Peers : \E t \in Records(p) :
      t.id = "a" /\ t.state = COMPLETED

\* The i-th file of job k of peer p has been sent in full and its loop has
\* passed line 215; no progress timer of it is still to fire.
SentInFull(p, k, i) ==
  /\ jobs[p][k].offsets[i] = fileSize[jobs[p][k].files[i]]
  /\ jobs[p][k].returned[i] = "completed"
  /\ \A n \in 1..Len(timers[p]) :
       ~(timers[p][n].job = k /\ timers[p][n].idx = i)

\* C21. Final progress report: for every accepted file all of whose bytes
\* have been sent, of every size from 0, the progress callback has been
\* invoked with the file size (the callback of the last chunk reads the final
\* offset; calculateSpeed has then seen the id).
C21_FinalProgress ==
  \A p \in Peers : \A k \in 1..Len(jobs[p]) :
    \A i \in 1..Len(jobs[p][k].files) :
      SentInFull(p, k, i) => jobs[p][k].files[i] \in DOMAIN speedTracker[p]

\* C22. Id framing robustness: the header of a chunk decodes to the same
\* file id whether the id is followed by null bytes, by spaces, by both, or
\* fills the header unpadded; headers that differ only in such padding decode
\* to equal ids.
C22_IdFraming ==
  lastEvent.op = "DecodeArrived" => lastEvent.id \in userFiles

\* A header of the id, two null bytes and then spaces has been decoded.
C22_Witness ==
  /\ lastEvent = Event("DecodeArrived", "R", "b")
  /\ Head(wire["S"]).data = IdBytes("b") \o <<NUL, NUL, SPACE, SPACE, SPACE>>

\* The number of chunks of a file of L bytes at chunk size C: ceil(L / C).
ChunkCount(id) == (fileSize[id] + chunkSize - 1) \div chunkSize

\* The j-th window of the file in ascending offset order.
NthChunk(id, j) ==
  SubSeq(FileBytes(id), (j - 1) * chunkSize + 1, Min(j * chunkSize, fileSize[id]))

IsChunkOf(id, m) == m.binary /\ DecodeHeader(m.data) = id

\* The payloads of the chunks of id in flight on w, in order.
PayloadsOf(w, id) ==
  LET F[n \in 0..Len(w)] ==
        IF n = 0 THEN <<>>
        ELSE IF IsChunkOf(id, w[n])
             THEN Append(F[n - 1], DecodePayload(w[n].data))
             ELSE F[n - 1]
  IN F[Len(w)]

\* The chunks of id the other peer holds, followed by those still in flight.
ChunksSoFar(p, id) ==
  (IF id \in DOMAIN receivedChunks[Other(p)]
   THEN receivedChunks[Other(p)][id] ELSE <<>>) \o PayloadsOf(wire[p], id)

\* There is one file-complete of id on w and no chunk of id follows it.
EndsWithOneFileComplete(w, id) ==
  /\ Count(w, LAMBDA m : IsFileComplete(id, m)) = 1
  /\ \A n \in 1..Len(w) : IsFileComplete(id, w[n]) =>
       \A k \in (n + 1)..Len(w) : ~IsChunkOf(id, w[k])

\* C23. Chunking: with no send failure and no cancel, the chunks sent for a
\* file of L bytes at chunk size C are, in order, the consecutive windows of
\* the file at ascending offsets, each of at most C bytes and all but the
\* last of exactly C; once the file-complete is sent there are exactly
\* ceil(L / C) of them and one file-complete follows them.
C23_Chunking ==
  \A p \in Peers : \A id \in FileIds :
    LET cs == ChunksSoFar(p, id)
        done == \E n \in 1..Len(wire[p]) : IsFileComplete(id, wire[p][n])
    IN /\ Len(cs) <= ChunkCount(id)
       /\ \A j \in 1..Len(cs) :
            /\ cs[j] = NthChunk(id, j)
            /\ Len(cs[j]) <= chunkSize
            /\ j < Len(cs) => Len(cs[j]) = chunkSize
       /\ done => /\ Len(cs) = ChunkCount(id)
                  /\ EndsWithOneFileComplete(wire[p], id)

\* A file of four bytes at chunk size three has arrived as a chunk of three
\* bytes and a chunk of one byte, and its file-complete is next.
C23_Witness ==
  /\ fileSize["a"] = 4 /\ chunkSize = 3
  /\ Len(wire["S"]) > 0 /\ IsFileComplete("a", Head(wire["S"]))
  /\ "a" \in DOMAIN receivedChunks["R"]
  /\ Len(receivedChunks["R"]["a"]) = 2
  /\ Len(receivedChunks["R"]["a"][2]) = 1

\* C24. Independence from cross-file order: however the chunks of two files
\* interleave on the channel, each id's receive buffer holds only payloads of
\* that id, in the order they were sent.
C24_CrossFileOrder ==
  \A p \in Peers : \A id \in DOMAIN receivedChunks[p] :
    \A j \in 1..Len(receivedChunks[p][id]) :
      receivedChunks[p][id][j] = NthChunk(id, j)

\* The first chunk of "a" and the chunk of "b" have arrived and the second
\* chunk of "a" is still on the channel: a chunk of one file came between two
\* chunks of the other.
C24_Witness ==
  /\ DOMAIN receivedChunks["R"] = FileIds
  /\ Len(receivedChunks["R"]["a"]) = 1
  /\ Len(receivedChunks["R"]["b"]) = 1
  /\ Len(jobs["S"]) = 2
  /\ Count(wire["S"], LAMBDA m : IsChunkOf("a", m)) = 1

\* Peer p holds a chunk list or a byte counter for id.
Buffered(p, id) ==
  id \in DOMAIN receivedChunks[p] \/ id \in DOMAIN receivedBytes[p]

\* C25. No retained buffers: in every reachable state no receive buffer and
\* no byte counter exists for an id whose record is COMPLETED or CANCELLED,
\* so no message arriving after completion or cancellation re-creates one.
C25_NoRetainedBuffers ==
  \A p \in Peers : \A t \in Records(p) :
    t.state \in {COMPLETED, CANCELLED} => ~Buffered(p, t.id)

\* A chunk of "a" has arrived at the receiver after its record became
\* CANCELLED, and nothing is held for "a".
C25_Witness ==
  /\ lastEvent = Event("RecvChunk", "R", "a")
  /\ \E t \in Records("R") : t.id = "a" /\ t.state = CANCELLED
  /\ ~Buffered("R", "a")

\* C26. Cancel releases receiver resources: when a cancel for an id is
\* handled, received from the peer or issued locally, while bytes are buffered
\* for it, the receive buffer, the byte counter and the RateSample of the id
\* are all discarded in that step and the record becomes CANCELLED.
C26_CancelReleases ==
  [][\A p \in Peers : \A id \in FileIds :
       /\ Did("RecvCancel", p, id) \/ Did("CancelTransfer", p, id)
       /\ id \in DOMAIN receivedChunks[p]
       => /\ id \notin DOMAIN receivedChunks'[p]
          /\ id \notin DOMAIN receivedBytes'[p]
          /\ id \notin DOMAIN speedTracker'[p]
          /\ \E i \in 1..Len(transfers'[p]) :
               transfers'[p][i].id = id /\ transfers'[p][i].state = CANCELLED]_vars

\* C27. bytesMoved bounds: in every reachable state and for every record, on
\* both sides, 0 <= bytesMoved <= byteSize, whatever offers, answers, chunks
\* and cancels have been processed.
C27_BytesMovedBounds ==
  \A p \in Peers : \A t \in Records(p) :
    /\ t.size = fileSize[t.id]
    /\ 0 <= t.progress /\ t.progress <= t.size

\* Both sides show every byte of a file of two bytes moved: the sender by its
\* progress callback, the receiver by the chunks it counted.
C27_Witness ==
  /\ fileSize["a"] = 2
  /\ \E t \in Records("S") :
       t.id = "a" /\ ~t.isIncoming /\ t.state = TRANSFERRING /\ t.progress = 2
  /\ \E t \in Records("R") :
       t.id = "a" /\ t.isIncoming /\ t.state = TRANSFERRING /\ t.progress = 2

\* C28. Per-chunk receive accounting: after each accepted chunk of an id is
\* handled, the id's running total is the sum of the lengths of the payloads
\* in its receive buffer, the record's bytesMoved is that running total and
\* the record's state is TRANSFERRING.
C28_PerChunkAccounting ==
  [][\A p \in Peers : \A id \in FileIds :
       Did("RecvChunk", p, id) /\ ~ChunkDropped(p, id)
       => /\ id \in DOMAIN receivedChunks'[p] /\ id \in DOMAIN receivedBytes'[p]
          /\ receivedBytes'[p][id] = SumLen(receivedChunks'[p][id])
          /\ \A i \in 1..Len(transfers'[p]) : transfers'[p][i].id = id =>
               /\ transfers'[p][i].progress = receivedBytes'[p][id]
               /\ transfers'[p][i].state = TRANSFERRING]_vars

\* The ids an offer names that the registry ts does not hold.
OfferedNew(m, ts) == {m.files[i].id : i \in 1..Len(m.files)} \ Ids(ts)

\* C29. Offer handling: receiving an offer creates one Incoming record in
\* PENDING with bytesMoved 0 for each offered descriptor whose id is not yet
\* in the registry and leaves every existing record unchanged; no two records
\* of a registry share an id, and no handler removes a record.
C29_OfferHandling ==
  [][\A p \in Peers :
       /\ Did("RecvOffer", p, "") =>
            LET new == OfferedNew(Head(wire[Other(p)]), transfers[p]) IN
            /\ Len(transfers'[p]) = Len(transfers[p]) + Cardinality(new)
            /\ SubSeq(transfers'[p], 1, Len(transfers[p])) = transfers[p]
            /\ \A id \in new :
                 \E i \in (Len(transfers[p]) + 1)..Len(transfers'[p]) :
                   /\ transfers'[p][i].id = id
                   /\ transfers'[p][i].isIncoming
                   /\ transfers'[p][i].state = PENDING
                   /\ transfers'[p][i].progress = 0
       /\ \A i, j \in 1..Len(transfers'[p]) :
            transfers'[p][i].id = transfers'[p][j].id => i = j
       /\ Ids(transfers[p]) \subseteq Ids(transfers'[p])]_vars

\* A second offer has arrived while the file of the first is in transfer:
\* the record of "a" stands as it was and "b" is a new PENDING record.
C29_Witness ==
  /\ lastEvent = Event("RecvOffer", "R", "")
  /\ Len(transfers["R"]) = 2
  /\ transfers["R"][1].id = "a" /\ transfers["R"][1].state = TRANSFERRING
  /\ transfers["R"][1].progress = 1
  /\ transfers["R"][2].id = "b" /\ transfers["R"][2].state = PENDING
  /\ transfers["R"][2].isIncoming /\ transfers["R"][2].progress = 0

\* The messages of a file transfer that carry id: its chunks and its
\* file-complete.
IsSendOf(id, m) == IsChunkOf(id, m) \/ IsFileComplete(id, m)

\* Peer p holds an Outgoing record of id with a source file.
HoldsOutgoing(p, id) ==
  \E i \in 1..Len(transfers[p]) :
    transfers[p][i].id = id /\ transfers[p][i].hasFile /\ ~transfers[p][i].isIncoming

\* C30. Accepted-only sending: a chunk or file-complete is sent for an id
\* only by a run of sendFiles that an answer naming the id has started at a
\* sender that holds an Outgoing record with a source file for it; an answer
\* naming an unknown id or an Incoming id starts no send for that id.
C30_AcceptedOnlySending ==
  [][\A p \in Peers :
       /\ \A id \in FileIds \cup {UnknownId} :
            Count(wire'[p], LAMBDA m : IsSendOf(id, m))
              > Count(wire[p], LAMBDA m : IsSendOf(id, m))
            => /\ HoldsOutgoing(p, id)
               /\ \E k \in 1..Len(jobs'[p]) :
                    \E i \in 1..Len(jobs'[p][k].files) : jobs'[p][k].files[i] = id
       /\ Len(jobs'[p]) # Len(jobs[p]) =>
            /\ Did("RecvAnswer", p, "")
            /\ jobs'[p] = Append(jobs[p], jobs'[p][Len(jobs'[p])])
            /\ \A i \in 1..Len(jobs'[p][Len(jobs'[p])].files) :
                 /\ jobs'[p][Len(jobs'[p])].files[i] \in Head(wire[Other(p)]).fileIds
                 /\ HoldsOutgoing(p, jobs'[p][Len(jobs'[p])].files[i])
       /\ \A k \in 1..Len(jobs[p]) : jobs'[p][k].files = jobs[p][k].files]_vars

\* The receiver has handled an answer that names its Incoming record "a" and
\* the unknown id "b": it has started no run of sendFiles and sent nothing.
C30_Witness ==
  /\ lastEvent = Event("RecvAnswer", "R", "")
  /\ \E t \in Records("R") : t.id = "a" /\ t.isIncoming
  /\ ~Has(transfers["R"], "b")
  /\ jobs["R"] = <<>>
  /\ wire["R"] = <<>>

\* C31. Sequential policy: within one sendFiles call the files are sent one
\* after another in list order: whenever a chunk of a file is sent, every
\* file before it in the list has finished (its file-complete was sent or its
\* loop stopped) and no file after it has sent a chunk.
C31_SequentialPolicy ==
  [][\A p \in Peers : \A k \in 1..Len(jobs'[p]) :
       \A i \in 1..Len(jobs'[p][k].files) :
         \/ /\ k <= Len(jobs[p])
            /\ jobs'[p][k].offsets[i] = jobs[p][k].offsets[i]
         \/ jobs'[p][k].offsets[i] = 0
         \/ /\ \A j \in 1..(i - 1) : jobs'[p][k].returned[j] # ""
            /\ \A j \in (i + 1)..Len(jobs'[p][k].files) :
                 jobs'[p][k].offsets[j] = 0]_vars

\* The first file of a batch of two has completed and the chunk of the
\* second has just been sent.
C31_Witness ==
  /\ lastEvent = Event("ChunkSent", "S", "b")
  /\ Len(jobs["S"]) = 1
  /\ jobs["S"][1].files = FileOrder
  /\ jobs["S"][1].returned[1] = "completed"
  /\ jobs["S"][1].offsets = <<1, 1>>

\* Run k of peer p is inside sendFileIndividual for id.
LoopActive(p, k, id) ==
  /\ jobs[p][k].pc \notin {"done", "failed"}
  /\ jobs[p][k].files[jobs[p][k].idx] = id

\* The bytes of id that run k of peer p has sent.
SentBy(p, k, id) ==
  IF \E i \in 1..Len(jobs[p][k].files) : jobs[p][k].files[i] = id
  THEN jobs[p][k].offsets[CHOOSE i \in 1..Len(jobs[p][k].files) :
                            jobs[p][k].files[i] = id]
  ELSE 0

\* C32. Single send per file: however many answers name an id, at most one
\* send loop is active for it at a time and no byte range of the file is sent
\* twice: at most one run of sendFiles has sent bytes of it.
C32_SingleSendPerFile ==
  \A p \in Peers : \A id \in FileIds :
    /\ Cardinality({k \in 1..Len(jobs[p]) : LoopActive(p, k, id)}) <= 1
    /\ Cardinality({k \in 1..Len(jobs[p]) : SentBy(p, k, id) > 0}) <= 1

\* No cancel of id has been issued on either side.
NeverCancelled(id) ==
  \A p \in Peers :
    /\ id \notin cancelledFiles[p]
    /\ \A t \in Records(p) : t.id = id => t.state # CANCELLED
    /\ \A n \in 1..Len(wire[p]) :
         ~(~wire[p][n].binary /\ wire[p][n].type = "cancel" /\ wire[p][n].fileId = id)

\* The chunks of id that peer p has sent are the first windows of the file:
\* those the other peer holds, then those in flight.
StreamExact(p, id) ==
  LET held == IF id \in DOMAIN receivedChunks[Other(p)]
              THEN receivedChunks[Other(p)][id] ELSE <<>>
      at == {n \in 1..Len(wire[p]) : IsChunkOf(id, wire[p][n])} IN
  /\ \A j \in 1..Len(held) : held[j] = NthChunk(id, j)
  /\ \A n \in at :
       DecodePayload(wire[p][n].data)
         = NthChunk(id, Len(held) + Cardinality({m \in at : m <= n}))

\* C33. Retry keeps the stream exact: a send that throws moves no offset,
\* schedules no progress report and puts nothing on the channel; the retry
\* repeats the cancellation check and, if it passes, the next chunk sent
\* carries the byte range at the unchanged offset, so the payloads sent for a
\* file that nobody cancelled are its bytes with no gap and no duplicate.
C33_RetryKeepsStream ==
  [][\A p \in Peers : \A id \in FileIds :
       /\ Did("SendThrows", p, id) =>
            /\ \A k \in 1..Len(jobs[p]) : jobs'[p][k].offsets = jobs[p][k].offsets
            /\ timers' = timers /\ wire' = wire /\ transfers' = transfers
       /\ Did("RetryDone", p, id) =>
            /\ \A n \in (Len(wire[p]) + 1)..Len(wire'[p]) : ~wire'[p][n].binary
            /\ \A k \in 1..Len(jobs[p]) :
                 /\ jobs'[p][k].offsets = jobs[p][k].offsets
                 /\ (jobs[p][k].pc = "retry_wait" /\ id \in cancelledFiles[p]) =>
                      /\ jobs'[p][k].returned[jobs[p][k].idx] = "cancelled"
                      /\ jobs'[p][k].pc # "read"
       /\ (Did("ChunkSent", p, id) /\ open) =>
            \E k \in 1..Len(jobs[p]) :
              LET i == jobs[p][k].idx
                  offset == jobs[p][k].offsets[i] IN
              /\ jobs[p][k].pc = "read" /\ jobs[p][k].files[i] = id
              /\ SubSeq(wire'[p], 1, Len(wire[p]) + 1) =
                   Append(wire[p], BinaryMsg(Packet(id,
                     SubSeq(FileBytes(id), offset + 1,
                            Min(offset + chunkSize, fileSize[id])))))
              /\ jobs'[p][k].offsets[i] = Min(offset + chunkSize, fileSize[id])
       /\ (id \in userFiles /\ NeverCancelled(id)') => StreamExact(p, id)']_vars

\* A send has thrown and was retried, and the receiver has assembled every
\* byte of a file of two chunks.
C33_Witness ==
  /\ sendFailures = 1
  /\ fileSize["a"] = 2 /\ chunkSize = 1
  /\ \E t \in Records("R") :
       t.id = "a" /\ t.state = COMPLETED /\ t.blob = FileBytes("a")

\* Peer p holds no record, receive buffer, byte counter, rate sample or
\* cancellation mark.
HoldsNothing(p) ==
  /\ transfers[p] = <<>>
  /\ receivedChunks[p] = EmptyMap /\ receivedBytes[p] = EmptyMap
  /\ speedTracker[p] = EmptyMap
  /\ cancelledFiles[p] = {}

\* C34. Reset during sending: the session reset leaves the peer with zero
\* records, receive buffers, byte counters, rate samples and cancellation
\* marks; a send loop still running at the reset sends no further message
\* and ends without raising an error.
C34_ResetDuringSending ==
  [][\A p \in Peers :
       /\ Did("Reset", p, "") => HoldsNothing(p)'
       /\ ~connection'[p] =>
            /\ Len(wire'[p]) <= Len(wire[p])
            /\ \A k \in 1..Len(jobs'[p]) : jobs'[p][k].pc # "failed"]_vars

\* C35. Codec round trip: for every id that fits the header and has no
\* whitespace at either end and no null character, and for every payload,
\* decoding the framed message (id bytes, zero padding up to the header
\* length, payload) gives back the id and exactly the payload bytes.
C35_CodecRoundTrip ==
  lastEvent.op = "FrameArrived" =>
    \A idBytes \in FrameIds, payload \in Payloads :
      Head(wire["S"]).data = Frame(idBytes, payload) =>
        /\ lastEvent.id = idBytes
        /\ DOMAIN receivedChunks["R"] = {idBytes}
        /\ receivedChunks["R"][idBytes] = <<payload>>
        /\ receivedBytes["R"][idBytes] = Len(payload)

\* A one-character id, padded with a null byte, has been decoded together
\* with a payload that starts with a null byte and ends with a space.
C35_Witness ==
  /\ lastEvent = Event("FrameArrived", "R", <<66>>)
  /\ Head(wire["S"]).data = <<66, NUL, NUL, SPACE>>
  /\ receivedChunks["R"][<<66>>] = <<<<NUL, SPACE>>>>

\* The bytes calculateSpeed(id, currentBytes) of peer p is called with in this
\* step: the offset a progress timer reads, or the running total of a chunk.
CalledWith(p, id) ==
  IF Did("ProgressCallback", p, id)
  THEN jobs[p][Head(timers[p]).job].offsets[Head(timers[p]).idx]
  ELSE receivedBytes'[p][id]

\* calculateSpeed(id, ...) of peer p runs in this step.
SpeedCalled(p, id) ==
  \/ Did("ProgressCallback", p, id)
  \/ Did("RecvChunk", p, id) /\ receivedBytes'[p] # receivedBytes[p]

TextsOf(list, Test(_)) ==
  LET sel == SelectSeq(list, Test) IN [i \in 1..Len(sel) |-> sel[i].text]

IsPrefix(s, t) == Len(s) <= Len(t) /\ SubSeq(t, 1, Len(s)) = s

\* The chat messages peer p has received are the first ones its peer has sent,
\* in the order of sending.
ChatInOrder(p) ==
  IsPrefix(TextsOf(chatMessages[p], IsPeers),
           TextsOf(chatMessages[Other(p)], IsMine))

\* C37. Chat isolation: a step that sends or receives a chat message changes
\* no TransferRecord, receive buffer, byte counter or cancellation mark of
\* either peer, and the chat messages a peer has received are in its chat
\* list in the order the other peer sent them, also when chunks of a file
\* travel on the same channel.
C37_ChatIsolation ==
  [][\A p \in Peers :
       /\ (Did("HandleSendChat", p, "") \/ Did("RecvChat", p, "")) =>
            /\ transfers' = transfers
            /\ transfersRef' = transfersRef
            /\ receivedChunks' = receivedChunks
            /\ receivedBytes' = receivedBytes
            /\ cancelledFiles' = cancelledFiles
       /\ ChatInOrder(p)']_vars

\* R has received two different chat messages of S, the second one while it
\* held bytes of an unfinished file and more chunks were on their way.
C37_Witness ==
  /\ lastEvent = Event("RecvChat", "R", "")
  /\ TextsOf(chatMessages["R"], IsPeers) = <<"x", "y">>
  /\ "a" \in DOMAIN receivedBytes["R"]
  /\ receivedBytes["R"]["a"] > 0
  /\ \E i \in 1..Len(wire["S"]) : wire["S"][i].binary

TypeOK ==
  /\ \A p \in Peers : DOMAIN receivedChunks[p] = DOMAIN receivedBytes[p]
  /\ \A p \in Peers : Len(jobs[p]) <= Cardinality(FileIds)

====
